---------------------------- MODULE Spec2Model ----------------------------
(***************************************************************************)
(* Cropverse backend: ingestion of one Arduino sensor reading              *)
(* (routes/arduino.py, services/arduino_handler.py), the threshold engine  *)
(* (services/alert_service.py) and the settings store it reads             *)
(* (services/firestore_service.py, routes/settings.py).                    *)
(*                                                                         *)
(* Numbers.  Python floats and ints are modelled as integers counted in    *)
(* steps of 1/Unit, so 35.0 is 35 * Unit and 1023.5 is 1023 * Unit + 1     *)
(* when Unit = 2.  int(x) truncates toward zero (Trunc).                   *)
(*                                                                         *)
(* A JSON value is a record [kind, v]: kind "num" (int or float, value v), *)
(* "str" (any non-numeric JSON value) or "missing" (key absent).           *)
(***************************************************************************)
EXTENDS Integers, Sequences, FiniteSets, TLC

\* ------------------------------------------------------------------ bounds
Unit == 2
\* external events in one run: requests, setting updates, injected failures
MaxEvents == 3
\* clock ticks in a day, and the last tick the clock reaches
TicksPerDay == 2
MaxTime == 3

\* datetime.utcnow(), in ticks
VARIABLE now
\* None as a datetime
NoTime == 0 - 1

\* ------------------------------------------------------- numbers and JSON
Num(x) == [kind |-> "num", v |-> x]
Str == [kind |-> "str", v |-> 0]
Missing == [kind |-> "missing", v |-> 0]

\* Python int(x) on a float: truncation toward zero, result kept in steps
Trunc(x) == IF x >= 0 THEN (x \div Unit) * Unit ELSE 0 - (((0 - x) \div Unit) * Unit)

\* isinstance(value, (int, float))
IsNumber(x) == x.kind = "num"

Fields == <<"temperature", "humidity", "methane", "other_gases">>
FieldSet == {"temperature", "humidity", "methane", "other_gases"}

\* ------------------------------------------------- utils/thresholds.py
TEMP_MAX == 35 * Unit
TEMP_MIN == 15 * Unit
TEMP_WARNING_MAX == 32 * Unit
TEMP_WARNING_MIN == 18 * Unit
HUMIDITY_MAX == 80 * Unit
HUMIDITY_MIN == 40 * Unit
HUMIDITY_WARNING_MAX == 75 * Unit
HUMIDITY_WARNING_MIN == 45 * Unit
METHANE_CRITICAL == 300 * Unit
METHANE_WARNING == 200 * Unit
METHANE_EXHAUST_FAN_THRESHOLD == 200 * Unit
OTHER_GASES_CRITICAL == 400 * Unit
OTHER_GASES_WARNING == 300 * Unit

ShouldActivateExhaustFanOff(methane_level) == methane_level > METHANE_EXHAUST_FAN_THRESHOLD
should_activate_exhaust_fan(methane_level) == methane_level >= METHANE_EXHAUST_FAN_THRESHOLD

\* ------------------------------------------------- utils/validators.py
\* Each validator returns "ok" or the tag of its error message.
validate_temperature(value) ==
    IF ~IsNumber(value) THEN "type"
    ELSE IF value.v < 0 THEN "negative"
    ELSE IF value.v > 60 * Unit THEN "too_high"
    ELSE "ok"

validate_humidity(value) ==
    IF ~IsNumber(value) THEN "type"
    ELSE IF value.v < 0 THEN "negative"
    ELSE IF value.v > 100 * Unit THEN "too_high"
    ELSE "ok"

validate_methane(value) ==
    IF ~IsNumber(value) THEN "type"
    ELSE IF Trunc(value.v) < 0 THEN "negative"
    ELSE IF Trunc(value.v) > 1023 * Unit THEN "too_high"
    ELSE "ok"

validate_other_gases(value) ==
    IF ~IsNumber(value) THEN "type"
    ELSE IF Trunc(value.v) < 0 THEN "negative"
    ELSE IF Trunc(value.v) > 1023 * Unit THEN "too_high"
    ELSE "ok"

Verdict(ok, field, error) == [ok |-> ok, field |-> field, error |-> error]

FirstMissing(data) ==
    Fields[CHOOSE i \in 1..4 : /\ data[Fields[i]].kind = "missing"
                               /\ \A j \in 1..(i - 1) : data[Fields[j]].kind # "missing"]

\* a faulty variant of validate_sensor_reading_dict: each field is checked
\* for presence only when its turn comes
ValidateFieldByField(data) ==
    IF data["temperature"].kind = "missing"
        THEN Verdict(FALSE, "temperature", "missing")
    ELSE IF validate_temperature(data["temperature"]) # "ok"
        THEN Verdict(FALSE, "temperature", validate_temperature(data["temperature"]))
    ELSE IF data["humidity"].kind = "missing"
        THEN Verdict(FALSE, "humidity", "missing")
    ELSE IF validate_humidity(data["humidity"]) # "ok"
        THEN Verdict(FALSE, "humidity", validate_humidity(data["humidity"]))
    ELSE IF data["methane"].kind = "missing"
        THEN Verdict(FALSE, "methane", "missing")
    ELSE IF validate_methane(data["methane"]) # "ok"
        THEN Verdict(FALSE, "methane", validate_methane(data["methane"]))
    ELSE IF data["other_gases"].kind = "missing"
        THEN Verdict(FALSE, "other_gases", "missing")
    ELSE IF validate_other_gases(data["other_gases"]) # "ok"
        THEN Verdict(FALSE, "other_gases", validate_other_gases(data["other_gases"]))
    ELSE Verdict(TRUE, "", "")

\* validate_sensor_reading_dict: the loop over the required fields, then the
\* four validators in order
validate_sensor_reading_dict(data) ==
    IF \E f \in FieldSet : data[f].kind = "missing"
        THEN Verdict(FALSE, FirstMissing(data), "missing")
    ELSE IF validate_temperature(data["temperature"]) # "ok"
        THEN Verdict(FALSE, "temperature", validate_temperature(data["temperature"]))
    ELSE IF validate_humidity(data["humidity"]) # "ok"
        THEN Verdict(FALSE, "humidity", validate_humidity(data["humidity"]))
    ELSE IF validate_methane(data["methane"]) # "ok"
        THEN Verdict(FALSE, "methane", validate_methane(data["methane"]))
    ELSE IF validate_other_gases(data["other_gases"]) # "ok"
        THEN Verdict(FALSE, "other_gases", validate_other_gases(data["other_gases"]))
    ELSE Verdict(TRUE, "", "")


\* ----------------------------------------------- models/sensor_reading.py
\* SensorReading.calculate_exhaust_fan_status with its default threshold 200
calculate_exhaust_fan_status(methane) == methane >= 200 * Unit

\* SensorReading.__init__: float(), int() and the derived exhaust_fan.
\* exhaust_fan is "none" (derive it), TRUE or FALSE.
SensorReading(temperature, humidity, methane, other_gases, exhaust_fan) ==
    [temperature |-> temperature,
     humidity    |-> humidity,
     methane     |-> Trunc(methane),
     other_gases |-> Trunc(other_gases),
     exhaust_fan |-> IF exhaust_fan = "none"
                        THEN calculate_exhaust_fan_status(Trunc(methane))
                        ELSE exhaust_fan = "true",
     timestamp   |-> now]

\* SensorReading.validate: the range check on the converted fields
SensorReading_validate(r) ==
    /\ ~(r.temperature < 0 \/ r.temperature > 60 * Unit)
    /\ ~(r.humidity < 0 \/ r.humidity > 100 * Unit)
    /\ ~(r.methane < 0 \/ r.methane > 1023 * Unit)
    /\ ~(r.other_gases < 0 \/ r.other_gases > 1023 * Unit)

NoReading == [temperature |-> 0, humidity |-> 0, methane |-> 0,
              other_gases |-> 0, exhaust_fan |-> FALSE, timestamp |-> NoTime]

\* --------------------------------------------- services/arduino_handler.py
calculate_exhaust_fan(methane_level) == should_activate_exhaust_fan(methane_level)

Failure(error, verdict) ==
    [success |-> FALSE, error |-> error, verdict |-> verdict,
     reading |-> NoReading, exhaust_fan |-> FALSE, reading_id |-> 0]

\* The reading process_sensor_data builds from validated data (steps 2 to 4)
BuildReading(data) ==
    SensorReading(data["temperature"].v, data["humidity"].v,
                  Trunc(data["methane"].v), Trunc(data["other_gases"].v),
                  IF calculate_exhaust_fan(Trunc(data["methane"].v))
                      THEN "true" ELSE "false")

\* process_sensor_data: its result for data when the store holds n readings
\* and the save succeeds (save_ok) or raises.
process_sensor_data(data, n, save_ok) ==
    LET verdict == validate_sensor_reading_dict(data)
        reading == BuildReading(data)
    IN  IF ~verdict.ok THEN Failure("validation_failed", verdict)
        ELSE IF ~SensorReading_validate(reading)
            THEN Failure("validation_failed", Verdict(FALSE, "", "model"))
        ELSE IF ~save_ok THEN Failure("database_error", verdict)
        ELSE [success |-> TRUE, error |-> "", verdict |-> verdict,
              reading |-> reading,
              exhaust_fan |-> calculate_exhaust_fan(Trunc(data["methane"].v)),
              reading_id |-> n + 1]

\* ------------------------------------------------------ models/setting.py
\* Setting.get_value_as_float: float(value), None (kind "str") if it fails
get_value_as_float(setting) == IF setting.kind = "num" THEN Num(setting.v) ELSE Str

\* ----------------------------------------------- services/alert_service.py
Keys == <<"temp_max", "temp_min", "temp_warning_max", "temp_warning_min",
          "humidity_max", "humidity_min", "humidity_warning_max", "humidity_warning_min",
          "methane_critical", "methane_warning",
          "other_gases_critical", "other_gases_warning">>
KeySet == {Keys[i] : i \in 1..12}

\* the default check_thresholds passes for each key (lines 76 to 90)
Default(key) ==
    CASE key = "temp_max" -> TEMP_MAX
      [] key = "temp_min" -> TEMP_MIN
      [] key = "temp_warning_max" -> TEMP_WARNING_MAX
      [] key = "temp_warning_min" -> TEMP_WARNING_MIN
      [] key = "humidity_max" -> HUMIDITY_MAX
      [] key = "humidity_min" -> HUMIDITY_MIN
      [] key = "humidity_warning_max" -> HUMIDITY_WARNING_MAX
      [] key = "humidity_warning_min" -> HUMIDITY_WARNING_MIN
      [] key = "methane_critical" -> METHANE_CRITICAL
      [] key = "methane_warning" -> METHANE_WARNING
      [] key = "other_gases_critical" -> OTHER_GASES_CRITICAL
      [] key = "other_gases_warning" -> OTHER_GASES_WARNING

\* _get_threshold_value: setting is the stored document (kind "missing" when
\* there is none), raises tells whether get_setting raised.
\* "x or default" takes the default when x is None or 0.0.
GetThresholdValueZeroOnError(setting, default, raises) ==
    IF raises THEN 0
    ELSE IF setting.kind = "missing" THEN 0
    ELSE IF get_value_as_float(setting).kind = "num" /\ get_value_as_float(setting).v # 0
        THEN get_value_as_float(setting).v
    ELSE default

_get_threshold_value(setting, default, raises) ==
    IF raises THEN default
    ELSE IF setting.kind = "missing" THEN default
    ELSE IF get_value_as_float(setting).kind = "num" /\ get_value_as_float(setting).v # 0
        THEN get_value_as_float(setting).v
    ELSE default

Alert(sensor_type, alert_type, value, threshold) ==
    [sensor_type |-> sensor_type, alert_type |-> alert_type,
     value |-> value, threshold |-> threshold, is_resolved |-> FALSE,
     created_at |-> now, resolved_at |-> NoTime]

\* Each helper returns the list of the alert it creates: << >> for None.
CheckTemperatureWarningFirst(temperature, temp_max, temp_min, temp_warning_max, temp_warning_min) ==
    IF temperature > temp_warning_max
        THEN <<Alert("temperature", "warning", temperature, temp_warning_max)>>
    ELSE IF temperature < temp_warning_min
        THEN <<Alert("temperature", "warning", temperature, temp_warning_min)>>
    ELSE IF temperature > temp_max
        THEN <<Alert("temperature", "critical", temperature, temp_max)>>
    ELSE IF temperature < temp_min
        THEN <<Alert("temperature", "critical", temperature, temp_min)>>
    ELSE << >>

_check_temperature_threshold(temperature, temp_max, temp_min, temp_warning_max, temp_warning_min) ==
    IF temperature > temp_max
        THEN <<Alert("temperature", "critical", temperature, temp_max)>>
    ELSE IF temperature < temp_min
        THEN <<Alert("temperature", "critical", temperature, temp_min)>>
    ELSE IF temperature > temp_warning_max
        THEN <<Alert("temperature", "warning", temperature, temp_warning_max)>>
    ELSE IF temperature < temp_warning_min
        THEN <<Alert("temperature", "warning", temperature, temp_warning_min)>>
    ELSE << >>

_check_humidity_threshold(humidity, humidity_max, humidity_min, humidity_warning_max, humidity_warning_min) ==
    IF humidity > humidity_max
        THEN <<Alert("humidity", "critical", humidity, humidity_max)>>
    ELSE IF humidity < humidity_min
        THEN <<Alert("humidity", "critical", humidity, humidity_min)>>
    ELSE IF humidity > humidity_warning_max
        THEN <<Alert("humidity", "warning", humidity, humidity_warning_max)>>
    ELSE IF humidity < humidity_warning_min
        THEN <<Alert("humidity", "warning", humidity, humidity_warning_min)>>
    ELSE << >>

\* a faulty variant of _check_methane_threshold: alerts at the limit itself
CheckMethaneAtLimit(methane, methane_critical, methane_warning) ==
    IF methane >= methane_critical
        THEN <<Alert("methane", "critical", methane, methane_critical)>>
    ELSE IF methane >= methane_warning
        THEN <<Alert("methane", "warning", methane, methane_warning)>>
    ELSE << >>

_check_methane_threshold(methane, methane_critical, methane_warning) ==
    IF methane > methane_critical
        THEN <<Alert("methane", "critical", methane, methane_critical)>>
    ELSE IF methane > methane_warning
        THEN <<Alert("methane", "warning", methane, methane_warning)>>
    ELSE << >>

_check_other_gases_threshold(other_gases, other_gases_critical, other_gases_warning) ==
    IF other_gases > other_gases_critical
        THEN <<Alert("other_gases", "critical", other_gases, other_gases_critical)>>
    ELSE IF other_gases > other_gases_warning
        THEN <<Alert("other_gases", "warning", other_gases, other_gases_warning)>>
    ELSE << >>

\* a faulty variant of the four checks: humidity before temperature
EvaluateReadingSwapped(reading, lim) ==
    _check_humidity_threshold(reading.humidity, lim["humidity_max"], lim["humidity_min"],
                              lim["humidity_warning_max"], lim["humidity_warning_min"])
    \o _check_temperature_threshold(reading.temperature, lim["temp_max"], lim["temp_min"],
                                    lim["temp_warning_max"], lim["temp_warning_min"])
    \o _check_methane_threshold(reading.methane, lim["methane_critical"], lim["methane_warning"])
    \o _check_other_gases_threshold(reading.other_gases, lim["other_gases_critical"],
                                    lim["other_gases_warning"])

\* check_thresholds lines 94 to 132: the four checks in order, on the limits
\* fetched before (lim maps each key to the value _get_threshold_value gave)
EvaluateReading(reading, lim) ==
    _check_temperature_threshold(reading.temperature, lim["temp_max"], lim["temp_min"],
                                 lim["temp_warning_max"], lim["temp_warning_min"])
    \o _check_humidity_threshold(reading.humidity, lim["humidity_max"], lim["humidity_min"],
                                 lim["humidity_warning_max"], lim["humidity_warning_min"])
    \o _check_methane_threshold(reading.methane, lim["methane_critical"], lim["methane_warning"])
    \o _check_other_gases_threshold(reading.other_gases, lim["other_gases_critical"],
                                    lim["other_gases_warning"])


\* ------------------------------------------------ routes/settings.py
\* validate_setting_value: temperature, humidity and methane keys are range
\* checked; no branch matches an other_gases key, whose value is accepted.
validate_setting_value(key, value) ==
    IF key \in {"temp_max", "temp_min", "temp_warning_max", "temp_warning_min"}
        THEN validate_temperature(value) = "ok"
    ELSE IF key \in {"humidity_max", "humidity_min", "humidity_warning_max", "humidity_warning_min"}
        THEN validate_humidity(value) = "ok"
    ELSE IF key \in {"methane_critical", "methane_warning"}
        THEN validate_methane(value) = "ok"
    ELSE TRUE

\* ---------------------------------------------------------------- inputs
Reading(t, h, m, g) ==
    [temperature |-> Num(t), humidity |-> Num(h), methane |-> Num(m), other_gases |-> Num(g)]

\* request bodies the device posts in Spec
EmptyBody == [f \in FieldSet |-> Missing]
Inputs ==
    { Reading(20 * Unit, 50 * Unit, 50 * Unit, 100 * Unit),
      Reading(40 * Unit, 90 * Unit, 350 * Unit, 450 * Unit),
      Reading(32 * Unit, 75 * Unit, 200 * Unit, 300 * Unit),
      Reading(18 * Unit, 45 * Unit, 199 * Unit + 1, 0 - 1),
      Reading(61 * Unit, 60 * Unit, 150 * Unit, 250 * Unit),
      EmptyBody }

\* values an administrator submits for a key: one number, a string, and for
\* two of the keys 0
Alt(key) ==
    CASE key = "temp_max" -> 19 * Unit
      [] key = "temp_min" -> 33 * Unit
      [] key = "temp_warning_max" -> 17 * Unit + 1
      [] key = "temp_warning_min" -> 21 * Unit
      [] key = "humidity_max" -> 49 * Unit
      [] key = "humidity_min" -> 76 * Unit
      [] key = "humidity_warning_max" -> 44 * Unit
      [] key = "humidity_warning_min" -> 51 * Unit
      [] key = "methane_critical" -> 40 * Unit
      [] key = "methane_warning" -> 199 * Unit
      [] key = "other_gases_critical" -> 1100 * Unit
      [] key = "other_gases_warning" -> 0 - Unit
UpdateValues(key) ==
    {Num(Alt(key)), Str} \cup
        (IF key \in {"temp_max", "methane_warning"} THEN {Num(0)} ELSE {})

\* ----------------------------------------------------------------- state
VARIABLES
    pc,               \* position of receive_sensor_data: idle, received, fetch,
                      \* evaluate, save, notify, respond, done
    data,             \* request body of the request in progress
    result,           \* what process_sensor_data returned
    sensor_readings,  \* Firestore collection sensor_readings, in insertion order
    alerts,           \* Firestore collection alerts, in insertion order
    settings,         \* Firestore collection settings: key -> stored value
    idx,              \* loop index of the running loop (keys, alerts)
    limits,           \* the thresholds check_thresholds has fetched so far
    warned,           \* keys for which "Failed to get threshold" was logged
    alerts_created,   \* the list check_thresholds builds and returns
    outbox,           \* send_alert_notification calls made, with their outcome
    response,         \* HTTP response of the request in progress
    updated,          \* keys written to settings since the running
                      \* check_thresholds started fetching its limits
    nEvents,          \* external events so far: requests, updates, failures
    analytics_summary,\* Firestore collection analytics_summary: date -> record
    sweep,            \* the running auto_resolve_old_alerts call
    returned,         \* what the last administrative or scheduled call returned
    tasks             \* the locals of the calls that run step by step beside
                      \* the others, one per worker

vars == <<pc, data, result, sensor_readings, alerts, settings, idx, limits, warned,
          alerts_created, outbox, response, updated, nEvents, now,
          analytics_summary, sweep, tasks, returned>>

\* the state of the lifecycle and analytics operations, and of the ingestion
batch == <<now, analytics_summary, sweep, returned, tasks>>
ingest == <<pc, data, result, idx, limits, warned, alerts_created, outbox, response,
            updated>>

Dates == 0..(MaxTime \div TicksPerDay)
NoSummary == [reading_count |-> 0]
NoSweep == [pc |-> "idle", cutoff |-> 0, queue |-> << >>, fetched |-> FALSE,
            resolved_count |-> 0, resolved |-> {}, failed |-> {}]
NoReturn == [op |-> "", date |-> 0, value |-> 0]
Workers == {1, 2}
NoTask == [op |-> "", pc |-> "idle"]
BatchIdle ==
    /\ analytics_summary = [d \in Dates |-> NoSummary]
    /\ sweep = NoSweep
    /\ returned = NoReturn
    /\ tasks = [w \in Workers |-> NoTask]

NoResult == Failure("", Verdict(FALSE, "", ""))
NoResponse == [code |-> 0, error_code |-> "", exhaust_fan |-> FALSE,
               alerts_generated |-> 0, reading_id |-> 0]
NoLimits == [k \in KeySet |-> 0]

Init ==
    /\ pc = "idle"
    /\ data = EmptyBody
    /\ result = NoResult
    /\ sensor_readings = << >>
    /\ alerts = << >>
    /\ settings = [k \in KeySet |-> Missing]
    /\ idx = 0
    /\ limits = NoLimits
    /\ warned = {}
    /\ alerts_created = << >>
    /\ outbox = << >>
    /\ response = NoResponse
    /\ updated = {}
    /\ nEvents = 0
    /\ now = 0
    /\ BatchIdle

\* An injected failure (a Firestore or notification call that fails) is an
\* external event and counts against MaxEvents.
Fault(failed) ==
    IF failed THEN nEvents < MaxEvents /\ nEvents' = nEvents + 1
              ELSE nEvents' = nEvents

\* The device posts a body to /api/arduino/data
Submit(d) ==
    /\ pc \in {"idle", "done"}
    /\ nEvents < MaxEvents
    /\ nEvents' = nEvents + 1
    /\ pc' = "received"
    /\ data' = d
    /\ result' = NoResult
    /\ idx' = 0
    /\ limits' = NoLimits
    /\ warned' = {}
    /\ alerts_created' = << >>
    /\ response' = NoResponse
    /\ updated' = {}
    /\ UNCHANGED <<sensor_readings, alerts, settings, outbox>>
    /\ UNCHANGED batch

\* a faulty variant of Receive: it goes on to check_thresholds whatever
\* process_sensor_data returned
ReceiveUnchecked ==
    /\ pc = "received"
    /\ \E save_ok \in BOOLEAN :
        LET res == process_sensor_data(data, Len(sensor_readings), save_ok)
        IN  /\ Fault(~save_ok /\ res.error = "database_error")
            /\ IF data = EmptyBody
                 THEN /\ response' = [NoResponse EXCEPT !.code = 400,
                                                        !.error_code = "EMPTY_BODY"]
                      /\ pc' = "done"
                      /\ UNCHANGED <<result, sensor_readings>>
               ELSE /\ result' = res
                    /\ sensor_readings' = IF res.success
                                             THEN Append(sensor_readings, res.reading)
                                             ELSE sensor_readings
                    /\ pc' = "fetch"
                    /\ UNCHANGED response
    /\ idx' = 1
    /\ UNCHANGED <<data, alerts, settings, limits, warned, alerts_created, outbox, updated>>
    /\ UNCHANGED batch

\* receive_sensor_data lines 65 to 100: the empty-body check, then
\* process_sensor_data, whose save may raise
Receive ==
    /\ pc = "received"
    /\ \E save_ok \in BOOLEAN :
        LET res == process_sensor_data(data, Len(sensor_readings), save_ok)
        IN  /\ Fault(~save_ok /\ res.error = "database_error")
            /\ IF data = EmptyBody
                 THEN /\ response' = [NoResponse EXCEPT !.code = 400,
                                                        !.error_code = "EMPTY_BODY"]
                      /\ pc' = "done"
                      /\ UNCHANGED <<result, sensor_readings>>
               ELSE IF ~res.success
                 THEN /\ result' = res
                      /\ response' = [NoResponse EXCEPT !.code = 400,
                                                        !.error_code = "PROCESSING_FAILED"]
                      /\ pc' = "done"
                      /\ UNCHANGED sensor_readings
               ELSE /\ result' = res
                    /\ sensor_readings' = Append(sensor_readings, res.reading)
                    /\ pc' = "fetch"
                    /\ UNCHANGED response
    /\ idx' = 1
    /\ UNCHANGED <<data, alerts, settings, limits, warned, alerts_created, outbox, updated>>
    /\ UNCHANGED batch

\* check_thresholds lines 76 to 90: one _get_threshold_value call, whose
\* get_setting may raise
FetchThreshold ==
    /\ pc = "fetch"
    /\ \E raises \in BOOLEAN :
        /\ Fault(raises)
        /\ limits' = [limits EXCEPT ![Keys[idx]] =
                          _get_threshold_value(settings[Keys[idx]], Default(Keys[idx]), raises)]
        /\ warned' = IF raises THEN warned \cup {Keys[idx]} ELSE warned
    /\ IF idx = 12 THEN pc' = "evaluate" /\ idx' = 1 /\ updated' = {}
                   ELSE pc' = "fetch" /\ idx' = idx + 1 /\ UNCHANGED updated
    /\ UNCHANGED <<data, result, sensor_readings, alerts, settings, alerts_created, outbox,
                   response>>
    /\ UNCHANGED batch

\* check_thresholds lines 94 to 132
Evaluate ==
    /\ pc = "evaluate"
    /\ alerts_created' = EvaluateReading(result.reading, limits)
    /\ pc' = IF alerts_created' = << >> THEN "respond" ELSE "save"
    /\ idx' = 1
    /\ UNCHANGED <<data, result, sensor_readings, alerts, settings, limits, warned, outbox,
                   response, updated, nEvents>>
    /\ UNCHANGED batch

\* check_thresholds lines 135 to 141: save_alert for one alert; a failure is
\* logged and the alert stays in the returned list
SaveAlert ==
    /\ pc = "save"
    /\ \E save_ok \in BOOLEAN :
        /\ Fault(~save_ok)
        /\ alerts' = IF save_ok THEN Append(alerts, alerts_created[idx]) ELSE alerts
    /\ IF idx = Len(alerts_created) THEN pc' = "notify" /\ idx' = 1
                                    ELSE pc' = "save" /\ idx' = idx + 1
    /\ UNCHANGED <<data, result, sensor_readings, settings, limits, warned, alerts_created,
                   outbox, response, updated>>
    /\ UNCHANGED batch

\* a faulty variant of Notify: a notification that raises ends the request
\* with an error response
NotifyAborting ==
    /\ pc = "notify"
    /\ \E outcome \in {"sent", "unsent", "raised"} :
        /\ Fault(outcome # "sent")
        /\ outbox' = Append(outbox, [sensor_type |-> alerts_created[idx].sensor_type,
                                     outcome |-> outcome])
        /\ IF outcome = "raised"
              THEN /\ pc' = "done"
                   /\ idx' = 1
                   /\ response' = [NoResponse EXCEPT !.code = 500]
              ELSE /\ IF idx = Len(alerts_created) THEN pc' = "respond" /\ idx' = 1
                                                   ELSE pc' = "notify" /\ idx' = idx + 1
                   /\ UNCHANGED response
    /\ UNCHANGED <<data, result, sensor_readings, alerts, settings, limits, warned,
                   alerts_created, updated>>
    /\ UNCHANGED batch

\* receive_sensor_data lines 123 to 133: send_alert_notification for one
\* alert; it reports sent (email or sms went out), unsent, or raises
Notify ==
    /\ pc = "notify"
    /\ \E outcome \in {"sent", "unsent", "raised"} :
        /\ Fault(outcome # "sent")
        /\ outbox' = Append(outbox, [sensor_type |-> alerts_created[idx].sensor_type,
                                     outcome |-> outcome])
    /\ IF idx = Len(alerts_created) THEN pc' = "respond" /\ idx' = 1
                                    ELSE pc' = "notify" /\ idx' = idx + 1
    /\ UNCHANGED <<data, result, sensor_readings, alerts, settings, limits, warned,
                   alerts_created, response, updated>>
    /\ UNCHANGED batch

\* receive_sensor_data lines 135 to 156
Respond ==
    /\ pc = "respond"
    /\ response' = [code |-> 200, error_code |-> "",
                    exhaust_fan |-> result.exhaust_fan,
                    alerts_generated |-> Len(alerts_created),
                    reading_id |-> result.reading_id]
    /\ pc' = "done"
    /\ UNCHANGED <<data, result, sensor_readings, alerts, settings, idx, limits, warned,
                   alerts_created, outbox, updated, nEvents>>
    /\ UNCHANGED batch

\* update_setting_route: validate_setting_value, then update_setting
UpdateSetting(key, value) ==
    /\ nEvents < MaxEvents
    /\ validate_setting_value(key, value)
    /\ settings[key] # value
    /\ settings' = [settings EXCEPT ![key] = value]
    /\ updated' = IF pc = "fetch" THEN updated \cup {key} ELSE updated
    /\ nEvents' = nEvents + 1
    /\ UNCHANGED <<pc, data, result, sensor_readings, alerts, idx, limits, warned,
                   alerts_created, outbox, response>>
    /\ UNCHANGED batch

Next ==
    \/ \E d \in Inputs : Submit(d)
    \/ Receive
    \/ FetchThreshold
    \/ Evaluate
    \/ SaveAlert
    \/ Notify
    \/ Respond
    \/ \E key \in KeySet : \E value \in UpdateValues(key) : UpdateSetting(key, value)

Spec == Init /\ [][Next]_vars


\* ------------------------------------------------------------ SpecRequest
\* One request with any body of AllBodies, run from its arrival to its
\* response, with at most one injected failure.
TemperatureValues == {Missing, Str, Num(0 - 1), Num(0), Num(25 * Unit + 1), Num(60 * Unit),
                      Num(60 * Unit + 1)}
HumidityValues == {Missing, Str, Num(0 - 1), Num(60 * Unit), Num(100 * Unit),
                   Num(100 * Unit + 1)}
MethaneValues == {Missing, Str, Num(0 - Unit), Num(0 - 1), Num(199 * Unit + 1),
                  Num(200 * Unit), Num(1023 * Unit + 1), Num(1024 * Unit)}
OtherGasesValues == {Missing, Str, Num(0 - 1), Num(250 * Unit), Num(1023 * Unit + 1),
                     Num(2000 * Unit)}
AllBodies ==
    { [temperature |-> t, humidity |-> h, methane |-> m, other_gases |-> g] :
        t \in TemperatureValues, h \in HumidityValues,
        m \in MethaneValues, g \in OtherGasesValues }

InitRequest ==
    /\ pc = "received"
    /\ data \in AllBodies
    /\ result = NoResult
    /\ sensor_readings = << >>
    /\ alerts = << >>
    /\ settings = [k \in KeySet |-> Missing]
    /\ idx = 0
    /\ limits = NoLimits
    /\ warned = {}
    /\ alerts_created = << >>
    /\ outbox = << >>
    /\ response = NoResponse
    /\ updated = {}
    /\ nEvents = MaxEvents - 1
    /\ now = 0
    /\ BatchIdle

NextRequest ==
    \/ Receive
    \/ FetchThreshold
    \/ Evaluate
    \/ SaveAlert
    \/ Notify
    \/ Respond

SpecRequest == InitRequest /\ [][NextRequest]_vars

\* ------------------------------------------------------------- SpecEngine
\* check_thresholds from the moment it has fetched its twelve limits, for
\* limits of one sensor group drawn freely (well ordered or not) and the
\* other groups at their defaults, with at most one injected failure.
TemperatureLimits == {17 * Unit, 25 * Unit + 1, 33 * Unit}
HumidityLimits == {44 * Unit, 60 * Unit + 1, 76 * Unit}
GasLimits == {150 * Unit, 250 * Unit, 350 * Unit}
DefaultLimits == [k \in KeySet |-> Default(k)]

EngineLimits ==
    { [DefaultLimits EXCEPT !["temp_max"] = a, !["temp_min"] = b,
                            !["temp_warning_max"] = c, !["temp_warning_min"] = d] :
        a \in TemperatureLimits, b \in TemperatureLimits,
        c \in TemperatureLimits, d \in TemperatureLimits }
    \cup
    { [DefaultLimits EXCEPT !["humidity_max"] = a, !["humidity_min"] = b,
                            !["humidity_warning_max"] = c, !["humidity_warning_min"] = d] :
        a \in HumidityLimits, b \in HumidityLimits,
        c \in HumidityLimits, d \in HumidityLimits }
    \cup
    { [DefaultLimits EXCEPT !["methane_critical"] = a, !["methane_warning"] = b,
                            !["other_gases_critical"] = c, !["other_gases_warning"] = d] :
        a \in GasLimits, b \in GasLimits, c \in GasLimits, d \in GasLimits }

EngineBodies ==
    { Reading(t, 60 * Unit, 50 * Unit, 100 * Unit) :
        t \in {16 * Unit, 17 * Unit, 20 * Unit, 25 * Unit + 1, 30 * Unit, 33 * Unit, 34 * Unit} }
    \cup
    { Reading(25 * Unit, h, 50 * Unit, 100 * Unit) :
        h \in {43 * Unit, 44 * Unit, 50 * Unit, 60 * Unit + 1, 70 * Unit, 76 * Unit, 77 * Unit} }
    \cup
    { Reading(25 * Unit, 60 * Unit, g, g) :
        g \in {100 * Unit, 150 * Unit, 200 * Unit, 250 * Unit, 300 * Unit, 350 * Unit, 400 * Unit} }

InitEngine ==
    /\ now = 0
    /\ pc = "evaluate"
    /\ data \in EngineBodies
    /\ result = process_sensor_data(data, 0, TRUE)
    /\ sensor_readings = <<result.reading>>
    /\ alerts = << >>
    /\ limits \in EngineLimits
    /\ settings = [k \in KeySet |-> Num(limits[k])]
    /\ idx = 1
    /\ warned = {}
    /\ alerts_created = << >>
    /\ outbox = << >>
    /\ response = NoResponse
    /\ updated = {}
    /\ nEvents = MaxEvents - 1
    /\ BatchIdle

NextEngine ==
    \/ Evaluate
    \/ SaveAlert
    \/ Notify
    \/ Respond

SpecEngine == InitEngine /\ [][NextEngine]_vars


\* --------------------------------------------------------- alert lifecycle
\* The administrative calls (create_alert, resolve_alert, the start of
\* auto_resolve_old_alerts) are made between two requests of the device; the
\* loop of a sweep runs alongside the requests that arrive meanwhile.
\* get_active_alerts asks get_recent_alerts for at most this many alerts
ACTIVE_ALERTS_LIMIT == 100

\* the documents of the alerts collection with their ids (an alert's id is
\* its position of insertion)
Docs(store) == [i \in 1..Len(store) |-> [doc_id |-> i, alert |-> store[i]]]

\* order_by('created_at', DESCENDING); alerts of one instant stay in their
\* order of insertion
RECURSIVE NewestFirst(_, _)
NewestFirst(docs, t) ==
    IF t < 0 THEN << >>
    ELSE SelectSeq(docs, LAMBDA d : d.alert.created_at = t) \o NewestFirst(docs, t - 1)

\* get_recent_alerts: the where clause, the ordering and the limit
get_recent_alerts(store, limit, unresolved_only) ==
    LET docs == IF unresolved_only
                    THEN SelectSeq(Docs(store), LAMBDA d : ~d.alert.is_resolved)
                    ELSE Docs(store)
        sorted == NewestFirst(docs, MaxTime)
    IN  SubSeq(sorted, 1, IF Len(sorted) < limit THEN Len(sorted) ELSE limit)

\* get_active_alerts: [] when get_recent_alerts raises
get_active_alerts(store, fetch_ok) ==
    IF fetch_ok THEN get_recent_alerts(store, ACTIVE_ALERTS_LIMIT, TRUE) ELSE << >>

\* a faulty variant of update_alert_status: it flips the stored status
UpdateAlertStatusFlipping(store, alert_id, is_resolved) ==
    [store EXCEPT ![alert_id] =
        [@ EXCEPT !.is_resolved = ~@, !.resolved_at = now]]

\* a faulty variant of update_alert_status: the flag is written without the
\* resolution time
UpdateAlertStatusFlagOnly(store, alert_id, is_resolved) ==
    [store EXCEPT ![alert_id] = [@ EXCEPT !.is_resolved = is_resolved]]

\* update_alert_status: the document update, resolved_at stamped with
\* utcnow() whenever is_resolved is true
update_alert_status(store, alert_id, is_resolved) ==
    [store EXCEPT ![alert_id] =
        [@ EXCEPT !.is_resolved = is_resolved,
                  !.resolved_at = IF is_resolved THEN now ELSE @]]

\* the clock advances; a request is handled within one tick
Tick ==
    /\ now < MaxTime
    /\ pc \in {"idle", "done"}
    /\ now' = now + 1
    /\ UNCHANGED <<sensor_readings, alerts, settings, nEvents, analytics_summary, sweep,
                   returned>>
    /\ UNCHANGED ingest
    /\ UNCHANGED tasks

\* create_alert: the alert is saved, or None is returned when the save raises
ManualAlerts == { <<"methane", "info", 50 * Unit, 200 * Unit>> }
CreateAlert(a) ==
    /\ pc \in {"idle", "done"}
    /\ nEvents < MaxEvents
    /\ nEvents' = nEvents + 1
    /\ \E save_ok \in BOOLEAN :
        /\ alerts' = IF save_ok THEN Append(alerts, Alert(a[1], a[2], a[3], a[4]))
                                ELSE alerts
        /\ returned' = [op |-> "create_alert",
                        value |-> IF save_ok THEN Len(alerts) + 1 ELSE 0]
    /\ UNCHANGED <<sensor_readings, settings, now, analytics_summary, sweep>>
    /\ UNCHANGED ingest
    /\ UNCHANGED tasks

\* resolve_alert(alert_id): True when update_alert_status succeeded, False
\* when it raised, as it does for an id that has no document
AlertIds == 1..(2 * MaxEvents)
ResolveAlert(alert_id) ==
    /\ pc \in {"idle", "done"}
    /\ nEvents < MaxEvents
    /\ nEvents' = nEvents + 1
    /\ \E update_ok \in BOOLEAN :
        /\ update_ok => alert_id \in 1..Len(alerts)
        /\ alerts' = IF update_ok THEN update_alert_status(alerts, alert_id, TRUE)
                                  ELSE alerts
        /\ returned' = [op |-> "resolve_alert", value |-> update_ok]
    /\ UNCHANGED <<sensor_readings, settings, now, analytics_summary, sweep>>
    /\ UNCHANGED ingest
    /\ UNCHANGED tasks

\* auto_resolve_old_alerts(days) lines 565 to 570: the cutoff and the list
\* of active alerts
SweepDays == {1}
SweepStart(days) ==
    /\ pc \in {"idle", "done"}
    /\ sweep.pc # "loop"
    /\ nEvents < MaxEvents
    /\ \E fetch_ok \in BOOLEAN :
        /\ nEvents' = nEvents + 1
        /\ sweep' = [pc |-> "loop",
                     cutoff |-> now - days * TicksPerDay,
                     queue |-> [i \in 1..Len(get_active_alerts(alerts, fetch_ok)) |->
                                    get_active_alerts(alerts, fetch_ok)[i].doc_id],
                     fetched |-> fetch_ok,
                     resolved_count |-> 0,
                     resolved |-> {},
                     failed |-> {}]
    /\ UNCHANGED <<sensor_readings, alerts, settings, now, analytics_summary, returned>>
    /\ UNCHANGED ingest
    /\ UNCHANGED tasks

\* a faulty variant of SweepStep: the first failed resolution ends the loop
SweepStepAborting ==
    /\ sweep.pc = "loop"
    /\ sweep.queue # << >>
    /\ LET alert_id == Head(sweep.queue)
       IN  IF alerts[alert_id].created_at < sweep.cutoff
             THEN \E update_ok \in BOOLEAN :
                    /\ Fault(~update_ok)
                    /\ alerts' = IF update_ok
                                    THEN update_alert_status(alerts, alert_id, TRUE)
                                    ELSE alerts
                    /\ sweep' = IF update_ok
                          THEN [sweep EXCEPT !.queue = Tail(@),
                                             !.resolved_count = @ + 1,
                                             !.resolved = @ \cup {alert_id}]
                          ELSE [sweep EXCEPT !.queue = << >>,
                                             !.failed = @ \cup {alert_id}]
             ELSE /\ sweep' = [sweep EXCEPT !.queue = Tail(@)]
                  /\ UNCHANGED <<alerts, nEvents>>
    /\ UNCHANGED <<sensor_readings, settings, now, analytics_summary, returned>>
    /\ UNCHANGED ingest
    /\ UNCHANGED tasks

\* auto_resolve_old_alerts lines 571 to 574: one pass of the loop
SweepStep ==
    /\ sweep.pc = "loop"
    /\ sweep.queue # << >>
    /\ LET alert_id == Head(sweep.queue)
       IN  IF alerts[alert_id].created_at < sweep.cutoff
             THEN \E update_ok \in BOOLEAN :
                    /\ Fault(~update_ok)
                    /\ alerts' = IF update_ok
                                    THEN update_alert_status(alerts, alert_id, TRUE)
                                    ELSE alerts
                    /\ sweep' = IF update_ok
                          THEN [sweep EXCEPT !.queue = Tail(@),
                                             !.resolved_count = @ + 1,
                                             !.resolved = @ \cup {alert_id}]
                          ELSE [sweep EXCEPT !.queue = Tail(@),
                                             !.failed = @ \cup {alert_id}]
             ELSE /\ sweep' = [sweep EXCEPT !.queue = Tail(@)]
                  /\ UNCHANGED <<alerts, nEvents>>
    /\ UNCHANGED <<sensor_readings, settings, now, analytics_summary, returned>>
    /\ UNCHANGED ingest
    /\ UNCHANGED tasks

\* auto_resolve_old_alerts lines 576 to 577: the count is returned
SweepReturn ==
    /\ sweep.pc = "loop"
    /\ sweep.queue = << >>
    /\ sweep' = [sweep EXCEPT !.pc = "returned"]
    /\ returned' = [op |-> "auto_resolve_old_alerts", value |-> sweep.resolved_count]
    /\ UNCHANGED <<sensor_readings, alerts, settings, now, nEvents, analytics_summary>>
    /\ UNCHANGED ingest
    /\ UNCHANGED tasks

\* -------------------------------------------------------------- SpecAlerts
\* Readings, manual alerts, manual resolutions and age sweeps while the
\* clock advances.
AlertInputs == { Reading(40 * Unit, 50 * Unit, 250 * Unit, 100 * Unit) }

NextAlerts ==
    \/ \E d \in AlertInputs : Submit(d)
    \/ Receive
    \/ FetchThreshold
    \/ Evaluate
    \/ SaveAlert
    \/ Notify
    \/ Respond
    \/ Tick
    \/ \E a \in ManualAlerts : CreateAlert(a)
    \/ \E alert_id \in AlertIds : ResolveAlert(alert_id)
    \/ \E days \in SweepDays : SweepStart(days)
    \/ SweepStep
    \/ SweepReturn

SpecAlerts == Init /\ [][NextAlerts]_vars


\* --------------------------------------------------------------- SpecSweep
\* One age sweep (and what follows it) over a store of open alerts of which
\* the first NOld are older than the cutoff of a one-day sweep and the next
\* NRecent were created at the cutoff or later.
OldCounts == {0, 1, 2, 3}
RecentCounts == {0, 1, ACTIVE_ALERTS_LIMIT - 2, ACTIVE_ALERTS_LIMIT - 1, ACTIVE_ALERTS_LIMIT}
StoredAlert(created_at) ==
    [Alert("methane", "warning", 250 * Unit, 200 * Unit) EXCEPT !.created_at = created_at]
AlertStore(n_old, n_recent, recent_at) ==
    [i \in 1..(n_old + n_recent) |->
        IF i <= n_old THEN StoredAlert(0) ELSE StoredAlert(recent_at)]

InitSweep ==
    /\ now = MaxTime
    /\ \E n_old \in OldCounts : \E n_recent \in RecentCounts :
       \E recent_at \in {MaxTime - TicksPerDay, MaxTime} :
          alerts = AlertStore(n_old, n_recent, recent_at)
    /\ pc = "idle"
    /\ data = EmptyBody
    /\ result = NoResult
    /\ sensor_readings = << >>
    /\ settings = [k \in KeySet |-> Missing]
    /\ idx = 0
    /\ limits = NoLimits
    /\ warned = {}
    /\ alerts_created = << >>
    /\ outbox = << >>
    /\ response = NoResponse
    /\ updated = {}
    /\ nEvents = MaxEvents - 2
    /\ BatchIdle

NextSweep ==
    \/ \E days \in SweepDays : SweepStart(days)
    \/ SweepStep
    \/ SweepReturn

SpecSweep == InitSweep /\ [][NextSweep]_vars


\* ----------------------------------------------- analytics: daily summary
\* _count_alerts_for_date and _count_critical_alerts_for_date ask
\* get_recent_alerts for at most this many alerts
ALERT_COUNT_LIMIT == 1000

\* datetime.combine(target_date, datetime.min.time()) and
\* datetime.combine(target_date, datetime.max.time())
DayStart(d) == d * TicksPerDay
DayEnd(d) == d * TicksPerDay + TicksPerDay - 1

get_readings_in_range(store, start_time, end_time) ==
    SelectSeq(store, LAMBDA r : start_time <= r.timestamp /\ r.timestamp <= end_time)

\* df[column].mean() is SumOf / Len; df[column].max(), df[column].min()
RECURSIVE SumOf(_, _)
SumOf(readings, column) ==
    IF readings = << >> THEN 0
    ELSE Head(readings)[column] + SumOf(Tail(readings), column)
MaxOf(readings, column) ==
    CHOOSE x \in {readings[i][column] : i \in DOMAIN readings} :
        \A i \in DOMAIN readings : readings[i][column] <= x
MinOf(readings, column) ==
    CHOOSE x \in {readings[i][column] : i \in DOMAIN readings} :
        \A i \in DOMAIN readings : readings[i][column] >= x

\* round(num / den, 2) for num >= 0, in hundredths, a half going to the even
\* neighbour
Round2(num, den) ==
    LET q == (num * 100) \div den
        r == (num * 100) % den
    IN  IF 2 * r > den THEN q + 1
        ELSE IF 2 * r < den THEN q
        ELSE IF q % 2 = 0 THEN q ELSE q + 1

InWindow(t, start_datetime, end_datetime) == start_datetime <= t /\ t <= end_datetime

\* _count_alerts_for_date: 0 when get_recent_alerts raises
_count_alerts_for_date(store, start_datetime, end_datetime, fetch_ok) ==
    IF ~fetch_ok THEN 0
    ELSE Len(SelectSeq(get_recent_alerts(store, ALERT_COUNT_LIMIT, FALSE),
                       LAMBDA d : InWindow(d.alert.created_at, start_datetime,
                                           end_datetime)))

\* _count_critical_alerts_for_date: 0 when get_recent_alerts raises
_count_critical_alerts_for_date(store, start_datetime, end_datetime, fetch_ok) ==
    IF ~fetch_ok THEN 0
    ELSE Len(SelectSeq(get_recent_alerts(store, ALERT_COUNT_LIMIT, FALSE),
                       LAMBDA d : /\ InWindow(d.alert.created_at, start_datetime,
                                              end_datetime)
                                  /\ d.alert.alert_type = "critical"))

\* AnalyticsSummary.__init__ on the aggregates of the readings: the rounded
\* values are kept in hundredths, max_methane in steps of 1/Unit
AnalyticsSummary(summary_date, readings, alert_count, critical_alert_count) ==
    [date |-> summary_date,
     avg_temperature |-> Round2(SumOf(readings, "temperature"), Unit * Len(readings)),
     max_temperature |-> Round2(MaxOf(readings, "temperature"), Unit),
     min_temperature |-> Round2(MinOf(readings, "temperature"), Unit),
     avg_humidity |-> Round2(SumOf(readings, "humidity"), Unit * Len(readings)),
     max_humidity |-> Round2(MaxOf(readings, "humidity"), Unit),
     min_humidity |-> Round2(MinOf(readings, "humidity"), Unit),
     avg_methane |-> Round2(SumOf(readings, "methane"), Unit * Len(readings)),
     max_methane |-> Trunc(MaxOf(readings, "methane")),
     avg_other_gases |-> Round2(SumOf(readings, "other_gases"), Unit * Len(readings)),
     alert_count |-> alert_count,
     critical_alert_count |-> critical_alert_count,
     reading_count |-> Len(readings)]

\* what can go wrong in one calculate_daily_summary call: nothing, or one of
\* its four Firestore calls raises
Failures == {"none", "readings", "alerts", "critical_alerts", "save"}

\* a faulty variant of calculate_daily_summary: a day without readings gets
\* a summary of zeros
CalculateDailySummaryOfZeros(reading_store, alert_store, target_date, failure) ==
    LET start_datetime == DayStart(target_date)
        end_datetime == DayEnd(target_date)
        readings == get_readings_in_range(reading_store, start_datetime, end_datetime)
    IN  IF failure = "readings" THEN NoSummary
        ELSE IF readings = << >>
            THEN [date |-> target_date,
                  avg_temperature |-> 0, max_temperature |-> 0, min_temperature |-> 0,
                  avg_humidity |-> 0, max_humidity |-> 0, min_humidity |-> 0,
                  avg_methane |-> 0, max_methane |-> 0, avg_other_gases |-> 0,
                  alert_count |-> 0, critical_alert_count |-> 0, reading_count |-> 0]
        ELSE AnalyticsSummary(target_date, readings,
                 _count_alerts_for_date(alert_store, start_datetime, end_datetime,
                                        failure # "alerts"),
                 _count_critical_alerts_for_date(alert_store, start_datetime,
                                                 end_datetime,
                                                 failure # "critical_alerts"))

\* calculate_daily_summary lines 322 to 374: the summary it builds, NoSummary
\* for None
calculate_daily_summary(reading_store, alert_store, target_date, failure) ==
    LET start_datetime == DayStart(target_date)
        end_datetime == DayEnd(target_date)
        readings == get_readings_in_range(reading_store, start_datetime, end_datetime)
    IN  IF failure = "readings" THEN NoSummary
        ELSE IF readings = << >> THEN NoSummary
        ELSE AnalyticsSummary(target_date, readings,
                 _count_alerts_for_date(alert_store, start_datetime, end_datetime,
                                        failure # "alerts"),
                 _count_critical_alerts_for_date(alert_store, start_datetime,
                                                 end_datetime,
                                                 failure # "critical_alerts"))

\* calculate_daily_summary as a call: the summary is saved under its date
\* and returned; None is returned when there is none or the save raised
CalculateDailySummary(target_date) ==
    /\ \E failure \in Failures :
        LET summary == calculate_daily_summary(sensor_readings, alerts, target_date,
                                               failure)
            cost == IF failure = "none" THEN 1 ELSE 2
        IN  /\ nEvents + cost <= MaxEvents
            /\ nEvents' = nEvents + cost
            /\ IF summary = NoSummary \/ failure = "save"
                 THEN /\ returned' = [op |-> "calculate_daily_summary",
                                      date |-> target_date, value |-> NoSummary]
                      /\ UNCHANGED analytics_summary
                 ELSE /\ returned' = [op |-> "calculate_daily_summary",
                                      date |-> target_date, value |-> summary]
                      /\ analytics_summary' =
                            [analytics_summary EXCEPT ![target_date] = summary]
    /\ UNCHANGED <<sensor_readings, alerts, settings, now, sweep>>
    /\ UNCHANGED ingest
    /\ UNCHANGED tasks

\* calculate_and_save_daily_summary lines 62 to 113 on what
\* calculate_daily_summary returned.  An AnalyticsSummary has no get method:
\* the first summary_data.get(...) raises AttributeError, which the outer
\* except turns into a failure result.
calculate_and_save_daily_summary(summary_data) ==
    IF summary_data = NoSummary
        THEN [success |-> FALSE, summary |-> NoSummary, message |-> "no_data"]
        ELSE [success |-> FALSE, summary |-> NoSummary, message |-> "failed"]

\* the scheduled job for one date
RunDailyJob(target_date) ==
    /\ \E failure \in Failures :
        LET summary == calculate_daily_summary(sensor_readings, alerts, target_date,
                                               failure)
            cost == IF failure = "none" THEN 1 ELSE 2
            produced == summary # NoSummary /\ failure # "save"
        IN  /\ nEvents + cost <= MaxEvents
            /\ nEvents' = nEvents + cost
            /\ analytics_summary' =
                  IF produced THEN [analytics_summary EXCEPT ![target_date] = summary]
                              ELSE analytics_summary
            /\ returned' = [op |-> "calculate_and_save_daily_summary",
                            date |-> target_date,
                            value |-> calculate_and_save_daily_summary(
                                          IF produced THEN summary ELSE NoSummary)]
    /\ UNCHANGED <<sensor_readings, alerts, settings, now, sweep>>
    /\ UNCHANGED ingest
    /\ UNCHANGED tasks

\* ------------------------------------------------------------- SpecSummary
\* Summaries computed over stores of readings of two days and of alerts of
\* which the first NDay were created on day 0 and the next NLater on day 1.
StoredReading(t, h, m, g, timestamp) ==
    [SensorReading(t, h, m, g, "none") EXCEPT !.timestamp = timestamp]
ReadingA == StoredReading(20 * Unit, 50 * Unit, 50 * Unit, 100 * Unit, DayStart(0))
ReadingB == StoredReading(25 * Unit + 1, 60 * Unit, 250 * Unit, 300 * Unit, DayEnd(0))
ReadingC == StoredReading(40 * Unit, 90 * Unit, 350 * Unit, 450 * Unit, DayStart(1))
ReadingStores == { << >>, <<ReadingA, ReadingB>>,
                   <<ReadingA, ReadingB, ReadingC>>, <<ReadingC>> }

DayCounts == {0, 2}
LaterCounts == {0, ALERT_COUNT_LIMIT - 1, ALERT_COUNT_LIMIT}
DayAlert(i) ==
    IF i = 1
      THEN [Alert("temperature", "critical", 40 * Unit, 35 * Unit)
                EXCEPT !.created_at = DayStart(0)]
      ELSE [Alert("methane", "warning", 250 * Unit, 200 * Unit)
                EXCEPT !.created_at = DayEnd(0)]
SummaryAlertStore(n_day, n_later) ==
    [i \in 1..(n_day + n_later) |->
        IF i <= n_day THEN DayAlert(i) ELSE StoredAlert(DayStart(1))]

InitSummary ==
    /\ now = MaxTime
    /\ sensor_readings \in ReadingStores
    /\ \E n_day \in DayCounts : \E n_later \in LaterCounts :
          alerts = SummaryAlertStore(n_day, n_later)
    /\ pc = "idle"
    /\ data = EmptyBody
    /\ result = NoResult
    /\ settings = [k \in KeySet |-> Missing]
    /\ idx = 0
    /\ limits = NoLimits
    /\ warned = {}
    /\ alerts_created = << >>
    /\ outbox = << >>
    /\ response = NoResponse
    /\ updated = {}
    /\ nEvents = 0
    /\ BatchIdle

NextSummary ==
    \/ \E d \in Dates : CalculateDailySummary(d)
    \/ \E d \in Dates : RunDailyJob(d)
    \/ \E a \in ManualAlerts : CreateAlert(a)

SpecSummary == InitSummary /\ [][NextSummary]_vars


\* ------------------------------------------------ analytics: overall status
\* the default thresholds of is_temperature_stable and is_humidity_stable,
\* in hundredths, and the alert counts get_overall_status compares with
TEMPERATURE_STABLE_THRESHOLD == 500
HUMIDITY_STABLE_THRESHOLD == 1000
POOR_ALERT_COUNT == 20
FAIR_ALERT_COUNT == 5

\* round(max - min, 2) of two values already rounded to hundredths
get_temperature_range(s) == s.max_temperature - s.min_temperature
get_humidity_range(s) == s.max_humidity - s.min_humidity
is_temperature_stable(s) == get_temperature_range(s) <= TEMPERATURE_STABLE_THRESHOLD
is_humidity_stable(s) == get_humidity_range(s) <= HUMIDITY_STABLE_THRESHOLD

\* a faulty variant of get_overall_status: the alert counts are looked at
\* before the critical alerts
GetOverallStatusCountsFirst(s) ==
    IF s.alert_count > POOR_ALERT_COUNT THEN "Poor"
    ELSE IF s.alert_count > FAIR_ALERT_COUNT
            \/ ~is_temperature_stable(s) \/ ~is_humidity_stable(s) THEN "Fair"
    ELSE IF s.critical_alert_count > 0 THEN "Critical"
    ELSE IF s.alert_count > 0 THEN "Good"
    ELSE "Excellent"

get_overall_status(s) ==
    IF s.critical_alert_count > 0 THEN "Critical"
    ELSE IF s.alert_count > POOR_ALERT_COUNT THEN "Poor"
    ELSE IF s.alert_count > FAIR_ALERT_COUNT
            \/ ~is_temperature_stable(s) \/ ~is_humidity_stable(s) THEN "Fair"
    ELSE IF s.alert_count > 0 THEN "Good"
    ELSE "Excellent"

\* get_overall_status called on the summary stored for a date
GetOverallStatus(d) ==
    /\ analytics_summary[d] # NoSummary
    /\ returned.op # "get_overall_status"
    /\ returned' = [op |-> "get_overall_status", date |-> d,
                    value |-> get_overall_status(analytics_summary[d])]
    /\ UNCHANGED <<sensor_readings, alerts, settings, nEvents, now, analytics_summary,
                   sweep>>
    /\ UNCHANGED ingest
    /\ UNCHANGED tasks

\* -------------------------------------------------------------- SpecStatus
\* Summaries of day 0 built from one reading, or from two readings whose
\* temperatures and humidities differ by nothing, by the stability threshold
\* or by one step more, with alert counts around the limits of the table.
StatusSpreads == {0, 1, 2}
Spread(k, threshold) == IF k = 0 THEN 0 ELSE threshold * Unit + (k - 1)
StatusReadings ==
    { <<ReadingA>> } \cup
    { <<ReadingA,
        StoredReading(20 * Unit + Spread(kt, 5), 50 * Unit + Spread(kh, 10),
                      50 * Unit, 100 * Unit, DayEnd(0))>> :
        kt \in StatusSpreads, kh \in StatusSpreads }
StatusAlertCounts == {0, 1, FAIR_ALERT_COUNT, FAIR_ALERT_COUNT + 1,
                      POOR_ALERT_COUNT, POOR_ALERT_COUNT + 1}
StatusCriticalCounts == {0, 1}

InitStatus ==
    /\ now = MaxTime
    /\ sensor_readings \in StatusReadings
    /\ \E alert_count \in StatusAlertCounts :
       \E critical_alert_count \in StatusCriticalCounts :
          analytics_summary =
              [d \in Dates |->
                  IF d = 0 THEN AnalyticsSummary(0, sensor_readings, alert_count,
                                                 critical_alert_count)
                           ELSE NoSummary]
    /\ alerts = << >>
    /\ pc = "idle"
    /\ data = EmptyBody
    /\ result = NoResult
    /\ settings = [k \in KeySet |-> Missing]
    /\ idx = 0
    /\ limits = NoLimits
    /\ warned = {}
    /\ alerts_created = << >>
    /\ outbox = << >>
    /\ response = NoResponse
    /\ updated = {}
    /\ nEvents = 0
    /\ sweep = NoSweep
    /\ returned = NoReturn
    /\ tasks = [w \in Workers |-> NoTask]

NextStatus == \E d \in Dates : GetOverallStatus(d)

SpecStatus == InitStatus /\ [][NextStatus]_vars

\* ------------------------------------------------- alerts: get_alert_summary
Severities == {"critical", "warning", "info"}
SensorTypes == {"temperature", "humidity", "methane", "other_gases"}

\* min(active_alerts, key=created_at): the first alert of the smallest
\* created_at
OldestAlert(active_alerts) ==
    active_alerts[CHOOSE i \in DOMAIN active_alerts :
        \A j \in DOMAIN active_alerts :
            \/ active_alerts[i].alert.created_at < active_alerts[j].alert.created_at
            \/ (active_alerts[i].alert.created_at = active_alerts[j].alert.created_at
                /\ i <= j)]

\* Alert.get_age_minutes at time t, in ticks
get_age_minutes(alert, t) == t - alert.created_at

CountWhere(active_alerts, field, v) ==
    Len(SelectSeq(active_alerts, LAMBDA d : d.alert[field] = v))

\* get_alert_summary lines 637 to 665 on the list get_active_alerts returned
get_alert_summary(active_alerts, t) ==
    [active_count |-> Len(active_alerts),
     by_severity |-> [s \in Severities |-> CountWhere(active_alerts, "alert_type", s)],
     by_sensor |-> [s \in SensorTypes |-> CountWhere(active_alerts, "sensor_type", s)],
     oldest_alert_age_minutes |->
        IF active_alerts = << >> THEN 0
        ELSE get_age_minutes(OldestAlert(active_alerts).alert, t)]

\* get_alert_summary line 635: the one fetch of the open alerts
AlertSummaryFetch(w) ==
    /\ tasks[w] = NoTask
    /\ nEvents < MaxEvents
    /\ nEvents' = nEvents + 1
    /\ \E fetch_ok \in BOOLEAN :
          tasks' = [tasks EXCEPT ![w] =
                      [op |-> "get_alert_summary", pc |-> "fetched",
                       active_alerts |-> get_active_alerts(alerts, fetch_ok)]]
    /\ UNCHANGED <<sensor_readings, alerts, settings, now, analytics_summary, sweep,
                   returned>>
    /\ UNCHANGED ingest

\* a faulty variant of the rest of get_alert_summary: the alerts are fetched
\* again for the counts by sensor
AlertSummaryReturnRefetching(w) ==
    /\ tasks[w].op = "get_alert_summary"
    /\ tasks[w].pc = "fetched"
    /\ returned' = [op |-> "get_alert_summary", date |-> 0,
                    value |->
                       LET once == get_alert_summary(tasks[w].active_alerts, now)
                           again == get_alert_summary(get_active_alerts(alerts, TRUE), now)
                       IN  [active_count |-> once.active_count,
                            by_severity |-> once.by_severity,
                            by_sensor |-> again.by_sensor,
                            oldest_alert_age_minutes |-> once.oldest_alert_age_minutes]]
    /\ tasks' = [tasks EXCEPT ![w] = NoTask]
    /\ UNCHANGED <<sensor_readings, alerts, settings, now, nEvents, analytics_summary,
                   sweep>>
    /\ UNCHANGED ingest

\* get_alert_summary lines 637 to 666: the counts and the age, from the list
\* fetched
AlertSummaryReturn(w) ==
    /\ tasks[w].op = "get_alert_summary"
    /\ tasks[w].pc = "fetched"
    /\ returned' = [op |-> "get_alert_summary", date |-> 0,
                    value |-> get_alert_summary(tasks[w].active_alerts, now)]
    /\ tasks' = [tasks EXCEPT ![w] = NoTask]
    /\ UNCHANGED <<sensor_readings, alerts, settings, now, nEvents, analytics_summary,
                   sweep>>
    /\ UNCHANGED ingest

\* -------------------------------------------------------- SpecAlertSummary
\* get_alert_summary computed by two workers while alerts are created and
\* resolved and the clock advances, over stores of open alerts of several
\* severities and sensors.
SummaryStores ==
    { << >>,
      <<[Alert("temperature", "critical", 40 * Unit, 35 * Unit) EXCEPT !.created_at = 1],
        [Alert("methane", "warning", 250 * Unit, 200 * Unit) EXCEPT !.created_at = 0],
        [Alert("humidity", "warning", 85 * Unit, 80 * Unit) EXCEPT !.created_at = 1]>> }

InitAlertSummary ==
    /\ now = 1
    /\ alerts \in SummaryStores
    /\ pc = "idle"
    /\ data = EmptyBody
    /\ result = NoResult
    /\ sensor_readings = << >>
    /\ settings = [k \in KeySet |-> Missing]
    /\ idx = 0
    /\ limits = NoLimits
    /\ warned = {}
    /\ alerts_created = << >>
    /\ outbox = << >>
    /\ response = NoResponse
    /\ updated = {}
    /\ nEvents = 0
    /\ BatchIdle

NextAlertSummary ==
    \/ \E w \in Workers : AlertSummaryFetch(w)
    \/ \E w \in Workers : AlertSummaryReturn(w)
    \/ \E a \in ManualAlerts : CreateAlert(a)
    \/ \E alert_id \in AlertIds : ResolveAlert(alert_id)
    \/ Tick

SpecAlertSummary == InitAlertSummary /\ [][NextAlertSummary]_vars

\* --------------------------------- analytics: the daily summary step by step
\* calculate_daily_summary as the sequence of its Firestore calls, so that
\* other calls can run between them.  A task holds the locals of the call:
\* the date, the readings fetched, the two counts, and whether it was
\* started by get_daily_summary.

\* calculate_daily_summary lines 326 to 334: the readings of the day are
\* fetched; None is returned when the query raises or finds none
StartCalculation(w, target_date, caller, fetch_ok) ==
    LET readings == get_readings_in_range(sensor_readings, DayStart(target_date),
                                          DayEnd(target_date))
    IN  IF ~fetch_ok \/ readings = << >>
          THEN /\ returned' = [op |-> caller, date |-> target_date, value |-> NoSummary]
               /\ UNCHANGED tasks
          ELSE /\ tasks' = [tasks EXCEPT ![w] =
                              [op |-> "calculate_daily_summary", pc |-> "count_alerts",
                               date |-> target_date, caller |-> caller,
                               readings |-> readings,
                               alert_count |-> 0, critical_alert_count |-> 0]]
               /\ UNCHANGED returned

\* calculate_daily_summary(target_date) called directly
SummaryBegin(w, target_date) ==
    /\ tasks[w] = NoTask
    /\ \E fetch_ok \in BOOLEAN :
        /\ nEvents + (IF fetch_ok THEN 1 ELSE 2) <= MaxEvents
        /\ nEvents' = nEvents + (IF fetch_ok THEN 1 ELSE 2)
        /\ StartCalculation(w, target_date, "calculate_daily_summary", fetch_ok)
    /\ UNCHANGED <<sensor_readings, alerts, settings, now, analytics_summary, sweep>>
    /\ UNCHANGED ingest

\* a faulty variant of get_daily_summary: the stored summary is not looked
\* for, the summary is always computed
GetDailySummaryAlwaysComputing(w, target_date) ==
    /\ tasks[w] = NoTask
    /\ \E read_ok \in BOOLEAN : \E fetch_ok \in BOOLEAN :
        /\ nEvents + (IF read_ok /\ fetch_ok THEN 1 ELSE 2) <= MaxEvents
        /\ nEvents' = nEvents + (IF read_ok /\ fetch_ok THEN 1 ELSE 2)
        /\ IF ~read_ok
             THEN /\ returned' = [op |-> "get_daily_summary", date |-> target_date,
                                  value |-> NoSummary]
                  /\ UNCHANGED tasks
             ELSE StartCalculation(w, target_date, "get_daily_summary", fetch_ok)
    /\ UNCHANGED <<sensor_readings, alerts, settings, now, analytics_summary, sweep>>
    /\ UNCHANGED ingest

\* get_daily_summary(target_date): the stored summary when the read finds
\* one, None when the read raises, else calculate_daily_summary
GetDailySummary(w, target_date) ==
    /\ tasks[w] = NoTask
    /\ \E read_ok \in BOOLEAN : \E fetch_ok \in BOOLEAN :
        /\ nEvents + (IF read_ok /\ fetch_ok THEN 1 ELSE 2) <= MaxEvents
        /\ nEvents' = nEvents + (IF read_ok /\ fetch_ok THEN 1 ELSE 2)
        /\ IF ~read_ok
             THEN /\ returned' = [op |-> "get_daily_summary", date |-> target_date,
                                  value |-> NoSummary]
                  /\ UNCHANGED tasks
           ELSE IF analytics_summary[target_date] # NoSummary
             THEN /\ returned' = [op |-> "get_daily_summary", date |-> target_date,
                                  value |-> analytics_summary[target_date]]
                  /\ UNCHANGED tasks
             ELSE StartCalculation(w, target_date, "get_daily_summary", fetch_ok)
    /\ UNCHANGED <<sensor_readings, alerts, settings, now, analytics_summary, sweep>>
    /\ UNCHANGED ingest

\* calculate_daily_summary line 357: the first fetch of the alerts
SummaryCountAlerts(w) ==
    /\ tasks[w].op = "calculate_daily_summary"
    /\ tasks[w].pc = "count_alerts"
    /\ \E fetch_ok \in BOOLEAN :
        /\ Fault(~fetch_ok)
        /\ tasks' = [tasks EXCEPT ![w].pc = "count_critical",
                                  ![w].alert_count =
                                      _count_alerts_for_date(alerts,
                                          DayStart(tasks[w].date), DayEnd(tasks[w].date),
                                          fetch_ok)]
    /\ UNCHANGED <<sensor_readings, alerts, settings, now, analytics_summary, sweep,
                   returned>>
    /\ UNCHANGED ingest

\* calculate_daily_summary line 358: the second fetch of the alerts
SummaryCountCritical(w) ==
    /\ tasks[w].op = "calculate_daily_summary"
    /\ tasks[w].pc = "count_critical"
    /\ \E fetch_ok \in BOOLEAN :
        /\ Fault(~fetch_ok)
        /\ tasks' = [tasks EXCEPT ![w].pc = "save",
                                  ![w].critical_alert_count =
                                      _count_critical_alerts_for_date(alerts,
                                          DayStart(tasks[w].date), DayEnd(tasks[w].date),
                                          fetch_ok)]
    /\ UNCHANGED <<sensor_readings, alerts, settings, now, analytics_summary, sweep,
                   returned>>
    /\ UNCHANGED ingest

\* the summary a task has computed
TaskSummary(task) ==
    AnalyticsSummary(task.date, task.readings, task.alert_count,
                     task.critical_alert_count)

\* a faulty variant of the save: the document is named after the current
\* day, not after the date of the summary
SummarySaveUnderToday(w) ==
    /\ tasks[w].op = "calculate_daily_summary"
    /\ tasks[w].pc = "save"
    /\ \E save_ok \in BOOLEAN :
        /\ Fault(~save_ok)
        /\ analytics_summary' =
              IF save_ok THEN [analytics_summary EXCEPT ![now \div TicksPerDay] =
                                   TaskSummary(tasks[w])]
                         ELSE analytics_summary
        /\ returned' = [op |-> tasks[w].caller, date |-> tasks[w].date,
                        value |-> IF save_ok THEN TaskSummary(tasks[w]) ELSE NoSummary]
    /\ tasks' = [tasks EXCEPT ![w] = NoTask]
    /\ UNCHANGED <<sensor_readings, alerts, settings, now, sweep>>
    /\ UNCHANGED ingest

\* calculate_daily_summary lines 361 to 385: the summary is built, written
\* as the one document of its date and returned; None when the write raises
SummarySave(w) ==
    /\ tasks[w].op = "calculate_daily_summary"
    /\ tasks[w].pc = "save"
    /\ \E save_ok \in BOOLEAN :
        /\ Fault(~save_ok)
        /\ analytics_summary' =
              IF save_ok THEN [analytics_summary EXCEPT ![tasks[w].date] =
                                   TaskSummary(tasks[w])]
                         ELSE analytics_summary
        /\ returned' = [op |-> tasks[w].caller, date |-> tasks[w].date,
                        value |-> IF save_ok THEN TaskSummary(tasks[w]) ELSE NoSummary]
    /\ tasks' = [tasks EXCEPT ![w] = NoTask]
    /\ UNCHANGED <<sensor_readings, alerts, settings, now, sweep>>
    /\ UNCHANGED ingest

\* ---------------------------------------------------------- SpecConcurrent
\* Two workers compute daily summaries, directly or through
\* get_daily_summary, for day 0 and for the current day 1, while a reading
\* of day 1 is ingested and raises alerts.
ConcurrentStores == { <<ReadingA, ReadingB>>, <<ReadingA, ReadingB, ReadingC>> }

InitConcurrent ==
    /\ now = DayStart(1)
    /\ sensor_readings \in ConcurrentStores
    /\ alerts = << >>
    /\ pc = "idle"
    /\ data = EmptyBody
    /\ result = NoResult
    /\ settings = [k \in KeySet |-> Missing]
    /\ idx = 0
    /\ limits = NoLimits
    /\ warned = {}
    /\ alerts_created = << >>
    /\ outbox = << >>
    /\ response = NoResponse
    /\ updated = {}
    /\ nEvents = 0
    /\ BatchIdle

NextConcurrent ==
    \/ \E w \in Workers : \E d \in Dates : SummaryBegin(w, d)
    \/ \E w \in Workers : \E d \in Dates : GetDailySummary(w, d)
    \/ \E w \in Workers : SummaryCountAlerts(w)
    \/ \E w \in Workers : SummaryCountCritical(w)
    \/ \E w \in Workers : SummarySave(w)
    \/ \E d \in AlertInputs : Submit(d)
    \/ Receive
    \/ FetchThreshold
    \/ Evaluate
    \/ SaveAlert
    \/ Notify
    \/ Respond

SpecConcurrent == InitConcurrent /\ [][NextConcurrent]_vars

\* ------------------------------------------------- analytics: correlations
\* get_correlations looks at the last 7 days and needs 10 readings
CORRELATION_DAYS == 7
MIN_CORRELATION_READINGS == 10

Sensors == <<"temperature", "humidity", "methane", "other_gases">>
\* the pairs (sensor1, sensor2) with i < j
SensorPairs ==
    { <<Sensors[q[1]], Sensors[q[2]]>> :
        q \in {r \in (1..Len(Sensors)) \X (1..Len(Sensors)) : r[1] < r[2]} }

\* sums over the deviations from the first reading, which leave variances
\* and covariances as they are
RECURSIVE SumDev(_, _, _)
SumDev(readings, column, origin) ==
    IF readings = << >> THEN 0
    ELSE (Head(readings)[column] - origin) + SumDev(Tail(readings), column, origin)
RECURSIVE SumDevProduct(_, _, _, _, _)
SumDevProduct(readings, a, origin_a, b, origin_b) ==
    IF readings = << >> THEN 0
    ELSE (Head(readings)[a] - origin_a) * (Head(readings)[b] - origin_b)
         + SumDevProduct(Tail(readings), a, origin_a, b, origin_b)

NaN == [kind |-> "nan", sign |-> 0, cov2 |-> 0, vv |-> 0]
Sign(x) == IF x > 0 THEN 1 ELSE IF x < 0 THEN 0 - 1 ELSE 0

\* DataFrame.corr() for two columns: Pearson's r = cov / sqrt(var_a * var_b),
\* kept as its sign and the fraction r^2 = cov2 / vv; with a column of zero
\* variance the quotient is 0 / 0, which pandas gives as NaN
Pearson(readings, a, b) ==
    LET n == Len(readings)
        oa == readings[1][a]
        ob == readings[1][b]
        cov == n * SumDevProduct(readings, a, oa, b, ob)
               - SumDev(readings, a, oa) * SumDev(readings, b, ob)
        var_a == n * SumDevProduct(readings, a, oa, a, oa)
                 - SumDev(readings, a, oa) * SumDev(readings, a, oa)
        var_b == n * SumDevProduct(readings, b, ob, b, ob)
                 - SumDev(readings, b, ob) * SumDev(readings, b, ob)
    IN  IF var_a = 0 \/ var_b = 0 THEN NaN
        ELSE [kind |-> "num", sign |-> Sign(cov), cov2 |-> cov * cov,
              vv |-> var_a * var_b]

\* get_correlations at time t; round(value, 3) keeps NaN a NaN and a number
\* within its bounds
get_correlations(store, t, fetch_ok) ==
    LET readings == get_readings_in_range(store, t - CORRELATION_DAYS * TicksPerDay, t)
    IN  IF ~fetch_ok THEN [error |-> "exception"]
        ELSE IF Len(readings) < MIN_CORRELATION_READINGS
            THEN [error |-> "insufficient_data", data_points |-> Len(readings)]
        ELSE [matrix |-> [p \in SensorPairs |-> Pearson(readings, p[1], p[2])],
              data_points |-> Len(readings)]

GetCorrelations ==
    /\ returned.op # "get_correlations"
    /\ \E fetch_ok \in BOOLEAN :
          returned' = [op |-> "get_correlations", date |-> 0,
                       value |-> get_correlations(sensor_readings, now, fetch_ok)]
    /\ UNCHANGED <<sensor_readings, alerts, settings, nEvents, now, analytics_summary,
                   sweep, tasks>>
    /\ UNCHANGED ingest

\* --------------------------------------------------------- SpecCorrelation
\* get_correlations over stores holding 0 or 1 readings older than the
\* window and 0, 9, 10 or 11 readings inside it, each sensor being constant,
\* rising with period 3 or alternating.
Shapes == {"constant", "rising", "alternating"}
ShapeValue(shape, i) ==
    IF shape = "constant" THEN 0
    ELSE IF shape = "rising" THEN (i % 3) * Unit
    ELSE (i % 2) * Unit
OldReadingCounts == {0, 1}
WindowReadingCounts == {0, MIN_CORRELATION_READINGS - 1, MIN_CORRELATION_READINGS,
                        MIN_CORRELATION_READINGS + 1}
CorrelationStore(n_old, n, st, sh, sm, sg) ==
    [i \in 1..(n_old + n) |->
        StoredReading(20 * Unit + ShapeValue(st, i), 50 * Unit + ShapeValue(sh, i),
                      50 * Unit + ShapeValue(sm, i), 100 * Unit + ShapeValue(sg, i),
                      IF i <= n_old THEN 0 - (CORRELATION_DAYS * TicksPerDay + 1)
                                    ELSE 0)]

InitCorrelation ==
    /\ now = 0
    /\ \E n_old \in OldReadingCounts : \E n \in WindowReadingCounts :
       \E st \in Shapes : \E sh \in Shapes : \E sm \in Shapes : \E sg \in Shapes :
          sensor_readings = CorrelationStore(n_old, n, st, sh, sm, sg)
    /\ alerts = << >>
    /\ pc = "idle"
    /\ data = EmptyBody
    /\ result = NoResult
    /\ settings = [k \in KeySet |-> Missing]
    /\ idx = 0
    /\ limits = NoLimits
    /\ warned = {}
    /\ alerts_created = << >>
    /\ outbox = << >>
    /\ response = NoResponse
    /\ updated = {}
    /\ nEvents = 0
    /\ BatchIdle

NextCorrelation == GetCorrelations

SpecCorrelation == InitCorrelation /\ [][NextCorrelation]_vars

\* ------------------------------------------------------ analytics: trends
\* below this slope, in tenths, a trend is stable
STABLE_SLOPE_TENTHS == 1
TREND_DAYS == 7

\* df['timestamp'].dt.date
DateOf(timestamp) == timestamp \div TicksPerDay

\* the dates that have a reading, in ascending order: the groups of
\* df.groupby('date')
RECURSIVE Ascending(_)
Ascending(S) ==
    IF S = {} THEN << >>
    ELSE LET m == CHOOSE x \in S : \A y \in S : x <= y
         IN  <<m>> \o Ascending(S \ {m})
GroupDates(readings) == Ascending({DateOf(readings[i].timestamp) : i \in DOMAIN readings})
ReadingsOn(readings, d) == SelectSeq(readings, LAMBDA r : DateOf(r.timestamp) = d)

RECURSIVE ProductOfCounts(_, _)
ProductOfCounts(readings, dates) ==
    IF dates = << >> THEN 1
    ELSE Len(ReadingsOn(readings, Head(dates))) * ProductOfCounts(readings, Tail(dates))

\* the daily means less the first reading's value, all over the common
\* denominator ProductOfCounts, in steps of 1/Unit
DailyMeans(readings, column) ==
    LET dates == GroupDates(readings)
        common == ProductOfCounts(readings, dates)
    IN  [k \in 1..Len(dates) |->
            LET day == ReadingsOn(readings, dates[k])
            IN  SumDev(day, column, readings[1][column]) * (common \div Len(day))]

RECURSIVE SumIndexed(_, _, _)
\* the sum of weight(k) * y[k] over k = 1..n, weight being 1, the index
\* k - 1, or its square
SumIndexed(y, n, power) ==
    IF n = 0 THEN 0
    ELSE (IF power = 0 THEN y[n]
          ELSE IF power = 1 THEN (n - 1) * y[n]
          ELSE (n - 1) * (n - 1)) + SumIndexed(y, n - 1, power)

\* np.polyfit(x, y, 1)[0] for x = 0..n-1: the least-squares slope, as the
\* fraction num / den of sensor units per day, den > 0
Slope(readings, column) ==
    LET y == DailyMeans(readings, column)
        n == Len(y)
        sx == (n * (n - 1)) \div 2
    IN  [num |-> n * SumIndexed(y, n, 1) - sx * SumIndexed(y, n, 0),
         den |-> (n * SumIndexed(y, n, 2) - sx * sx)
                 * ProductOfCounts(readings, GroupDates(readings)) * Unit]

Abs(x) == IF x < 0 THEN 0 - x ELSE x

\* round(num / den, 4) for num >= 0, in ten-thousandths, a half going to
\* the even neighbour
Round4(num, den) ==
    LET q == (num * 10000) \div den
        r == (num * 10000) % den
    IN  IF 2 * r > den THEN q + 1
        ELSE IF 2 * r < den THEN q
        ELSE IF q % 2 = 0 THEN q ELSE q + 1

\* a faulty variant of _calculate_sensor_trends: no slope is small enough
\* to be stable
CalculateSensorTrendsBySign(readings, column) ==
    IF Len(GroupDates(readings)) >= 2
      THEN LET slope == Slope(readings, column)
           IN  [trend |-> IF slope.num = 0 THEN "stable"
                          ELSE IF slope.num > 0 THEN "increasing"
                          ELSE "decreasing",
                trend_strength |-> Round4(Abs(slope.num), slope.den),
                days |-> Len(GroupDates(readings))]
      ELSE [trend |-> "insufficient_data", trend_strength |-> 0,
            days |-> Len(GroupDates(readings))]

\* _calculate_sensor_trends lines 176 to 194 and 207 to 208: the trend and
\* its strength, in ten-thousandths, with the number of daily averages
_calculate_sensor_trends(readings, column) ==
    IF Len(GroupDates(readings)) >= 2
      THEN LET slope == Slope(readings, column)
           IN  [trend |-> IF 10 * Abs(slope.num) < STABLE_SLOPE_TENTHS * slope.den
                              THEN "stable"
                          ELSE IF slope.num > 0 THEN "increasing"
                          ELSE "decreasing",
                trend_strength |-> Round4(Abs(slope.num), slope.den),
                days |-> Len(GroupDates(readings))]
      ELSE [trend |-> "insufficient_data", trend_strength |-> 0,
            days |-> Len(GroupDates(readings))]

\* get_trends(7): the trends of the four sensors over the readings of the
\* last 7 days, or an error result when there are none or the query raises
GetTrends ==
    /\ returned.op # "get_trends"
    /\ \E fetch_ok \in BOOLEAN :
        LET readings == get_readings_in_range(sensor_readings,
                                              now - TREND_DAYS * TicksPerDay, now)
        IN  returned' =
              [op |-> "get_trends", date |-> 0,
               value |-> IF ~fetch_ok \/ readings = << >>
                           THEN [error |-> "no_data", data_points |-> 0]
                           ELSE [sensors |-> [s \in SensorTypes |->
                                      _calculate_sensor_trends(readings, s)],
                                 data_points |-> Len(readings)]]
    /\ UNCHANGED <<sensor_readings, alerts, settings, nEvents, now, analytics_summary,
                   sweep, tasks>>
    /\ UNCHANGED ingest

\* --------------------------------------------------------------- SpecTrends
\* get_trends over the readings of the last four days, each day having no
\* reading, one reading at 20, 22, 24 or 26 degrees, or two or three
\* readings of which the last is one step warmer; the humidity falls as the
\* temperature rises.
TrendReading(t, day) ==
    StoredReading(t, 110 * Unit - t, 50 * Unit, 100 * Unit, day * TicksPerDay)
DayOptions(day) ==
    { << >>,
      <<TrendReading(20 * Unit, day)>>, <<TrendReading(22 * Unit, day)>>,
      <<TrendReading(24 * Unit, day)>>, <<TrendReading(26 * Unit, day)>>,
      <<TrendReading(20 * Unit, day), TrendReading(20 * Unit + 1, day)>>,
      <<TrendReading(20 * Unit, day), TrendReading(20 * Unit, day),
        TrendReading(20 * Unit + 1, day)>> }

InitTrends ==
    /\ now = 0
    /\ \E d3 \in DayOptions(0 - 3) : \E d2 \in DayOptions(0 - 2) :
       \E d1 \in DayOptions(0 - 1) : \E d0 \in DayOptions(0) :
          sensor_readings = d3 \o d2 \o d1 \o d0
    /\ alerts = << >>
    /\ pc = "idle"
    /\ data = EmptyBody
    /\ result = NoResult
    /\ settings = [k \in KeySet |-> Missing]
    /\ idx = 0
    /\ limits = NoLimits
    /\ warned = {}
    /\ alerts_created = << >>
    /\ outbox = << >>
    /\ response = NoResponse
    /\ updated = {}
    /\ nEvents = 0
    /\ BatchIdle

NextTrends == GetTrends

SpecTrends == InitTrends /\ [][NextTrends]_vars

\* ------------------------------------------------ models: to_dict, from_dict
\* SensorReading.to_dict: the six stored fields
SensorReading_to_dict(r) ==
    [temperature |-> r.temperature, humidity |-> r.humidity, methane |-> r.methane,
     other_gases |-> r.other_gases, exhaust_fan |-> r.exhaust_fan,
     timestamp |-> r.timestamp]

\* a faulty variant of SensorReading.from_dict: exhaust_fan is not passed on
SensorReadingFromDictDeriving(doc) ==
    [SensorReading(doc.temperature, doc.humidity, doc.methane, doc.other_gases,
                   "none")
        EXCEPT !.timestamp = IF doc.timestamp = NoTime THEN now ELSE doc.timestamp]

\* SensorReading.from_dict: the constructor on the fields of the dictionary,
\* with exhaust_fan and timestamp given
SensorReading_from_dict(doc) ==
    [SensorReading(doc.temperature, doc.humidity, doc.methane, doc.other_gases,
                   IF doc.exhaust_fan THEN "true" ELSE "false")
        EXCEPT !.timestamp = IF doc.timestamp = NoTime THEN now ELSE doc.timestamp]

\* date.isoformat() and datetime.fromisoformat(date_str).date()
isoformat(d) == <<"iso", d>>
fromisoformat(date_str) == date_str[2]

\* AnalyticsSummary.to_dict: the date as its YYYY-MM-DD string, the other
\* fields as they are
AnalyticsSummary_to_dict(s) ==
    [date |-> isoformat(s.date),
     avg_temperature |-> s.avg_temperature, max_temperature |-> s.max_temperature,
     min_temperature |-> s.min_temperature,
     avg_humidity |-> s.avg_humidity, max_humidity |-> s.max_humidity,
     min_humidity |-> s.min_humidity,
     avg_methane |-> s.avg_methane, max_methane |-> s.max_methane,
     avg_other_gases |-> s.avg_other_gases,
     alert_count |-> s.alert_count, critical_alert_count |-> s.critical_alert_count,
     reading_count |-> s.reading_count]

\* AnalyticsSummary.from_dict: the date parsed, and the constructor's
\* round(x, 2) and int() applied to the values of the dictionary, which are
\* in hundredths (max_methane in steps of 1/Unit)
AnalyticsSummary_from_dict(doc) ==
    [date |-> fromisoformat(doc.date),
     avg_temperature |-> Round2(doc.avg_temperature, 100),
     max_temperature |-> Round2(doc.max_temperature, 100),
     min_temperature |-> Round2(doc.min_temperature, 100),
     avg_humidity |-> Round2(doc.avg_humidity, 100),
     max_humidity |-> Round2(doc.max_humidity, 100),
     min_humidity |-> Round2(doc.min_humidity, 100),
     avg_methane |-> Round2(doc.avg_methane, 100),
     max_methane |-> Trunc(doc.max_methane),
     avg_other_gases |-> Round2(doc.avg_other_gases, 100),
     alert_count |-> doc.alert_count,
     critical_alert_count |-> doc.critical_alert_count,
     reading_count |-> doc.reading_count]

\* from_dict(to_dict()) of the i-th stored reading
ReadingRoundTrip(i) ==
    /\ i \in 1..Len(sensor_readings)
    /\ ~(returned.op = "SensorReading.from_dict" /\ returned.date = i)
    /\ returned' = [op |-> "SensorReading.from_dict", date |-> i,
                    value |-> SensorReading_from_dict(
                                  SensorReading_to_dict(sensor_readings[i]))]
    /\ UNCHANGED <<sensor_readings, alerts, settings, nEvents, now, analytics_summary,
                   sweep, tasks>>
    /\ UNCHANGED ingest

\* from_dict(to_dict()) of the summary of a date
SummaryRoundTrip(d) ==
    /\ analytics_summary[d] # NoSummary
    /\ ~(returned.op = "AnalyticsSummary.from_dict" /\ returned.date = d)
    /\ returned' = [op |-> "AnalyticsSummary.from_dict", date |-> d,
                    value |-> AnalyticsSummary_from_dict(
                                  AnalyticsSummary_to_dict(analytics_summary[d]))]
    /\ UNCHANGED <<sensor_readings, alerts, settings, nEvents, now, analytics_summary,
                   sweep, tasks>>
    /\ UNCHANGED ingest

\* ------------------------------------------------------------ SpecRoundTrip
\* Two readings made at an earlier time, with exhaust_fan derived or forced
\* either way, and the summary of their day with its averages in hundredths.
RoundTripReadings ==
    { [SensorReading(t, 50 * Unit + 1, m, 100 * Unit, fan) EXCEPT !.timestamp = ts] :
        t \in {20 * Unit, 25 * Unit + 1}, m \in {50 * Unit, 250 * Unit},
        fan \in {"none", "true", "false"}, ts \in {0, 1} }
RoundTripIds == {1, 2}

InitRoundTrip ==
    /\ now = MaxTime
    /\ \E r \in RoundTripReadings :
          sensor_readings = <<ReadingA, r>>
    /\ \E alert_count \in {0, 2} : \E critical_alert_count \in {0, 1} :
          analytics_summary =
              [d \in Dates |->
                  IF d = 0 THEN AnalyticsSummary(0, sensor_readings, alert_count,
                                                 critical_alert_count)
                           ELSE NoSummary]
    /\ alerts = << >>
    /\ pc = "idle"
    /\ data = EmptyBody
    /\ result = NoResult
    /\ settings = [k \in KeySet |-> Missing]
    /\ idx = 0
    /\ limits = NoLimits
    /\ warned = {}
    /\ alerts_created = << >>
    /\ outbox = << >>
    /\ response = NoResponse
    /\ updated = {}
    /\ nEvents = 0
    /\ sweep = NoSweep
    /\ returned = NoReturn
    /\ tasks = [w \in Workers |-> NoTask]

NextRoundTrip ==
    \/ \E i \in RoundTripIds : ReadingRoundTrip(i)
    \/ \E d \in Dates : SummaryRoundTrip(d)

SpecRoundTrip == InitRoundTrip /\ [][NextRoundTrip]_vars

\* ------------------------------------ routes/settings.py: update_thresholds
\* A request body is the sequence of its (key, value) pairs in the order
\* data.items() yields them.
ThresholdBodies ==
    { << <<"temp_max", Num(Alt("temp_max"))>>,
         <<"temp_warning_max", Num(Alt("temp_warning_max"))>> >>,
      << <<"temp_warning_max", Num(Alt("temp_warning_max"))>>,
         <<"temp_max", Str>> >>,
      << >> }

\* lines 355 to 366: an empty body is answered 400; otherwise the loop starts.
\* before is the configuration in effect when the request arrived (kept for
\* the properties; the handler does not read it).
UpdateThresholdsBegin(w, body) ==
    /\ tasks[w].pc \in {"idle", "returned"}
    /\ nEvents < MaxEvents
    /\ nEvents' = nEvents + 1
    /\ tasks' = [tasks EXCEPT ![w] =
                    [op |-> "update_thresholds",
                     pc |-> IF body = << >> THEN "returned" ELSE "loop",
                     body |-> body, i |-> 1, errors |-> {}, updated_count |-> 0,
                     before |-> settings,
                     code |-> IF body = << >> THEN 400 ELSE 0]]
    /\ UNCHANGED <<sensor_readings, alerts, settings>>
    /\ UNCHANGED <<now, analytics_summary, sweep, returned>>
    /\ UNCHANGED ingest

\* what the handler answers once the loop is over (lines 382 to 403)
UpdateThresholdsCode(errors) == IF errors = {} THEN 200 ELSE 400

\* lines 368 to 380: one pass of the loop. An invalid value is noted and
\* skipped; a valid one is written by update_setting, one document write of
\* its own, whose failure ends the request with 500. After the last pass the
\* handler answers.
UpdateThresholdsStep(w) ==
    /\ tasks[w].op = "update_thresholds"
    /\ tasks[w].pc = "loop"
    /\ LET key == tasks[w].body[tasks[w].i][1]
           value == tasks[w].body[tasks[w].i][2]
           last == tasks[w].i = Len(tasks[w].body)
       IN IF ~validate_setting_value(key, value)
          THEN /\ tasks' = [tasks EXCEPT
                               ![w].errors = tasks[w].errors \cup {key},
                               ![w].i = tasks[w].i + 1,
                               ![w].pc = IF last THEN "returned" ELSE "loop",
                               ![w].code = IF last THEN 400 ELSE 0]
               /\ UNCHANGED <<settings, updated, nEvents>>
          ELSE \E raises \in BOOLEAN :
               /\ Fault(raises)
               /\ IF raises
                  THEN /\ tasks' = [tasks EXCEPT ![w].pc = "returned", ![w].code = 500]
                       /\ UNCHANGED <<settings, updated>>
                  ELSE /\ settings' = [settings EXCEPT ![key] = value]
                       /\ updated' = IF pc = "fetch" /\ settings[key] # value
                                         THEN updated \cup {key} ELSE updated
                       /\ tasks' = [tasks EXCEPT
                                       ![w].updated_count = tasks[w].updated_count + 1,
                                       ![w].i = tasks[w].i + 1,
                                       ![w].pc = IF last THEN "returned" ELSE "loop",
                                       ![w].code = IF last
                                                       THEN UpdateThresholdsCode(tasks[w].errors)
                                                       ELSE 0]
    /\ UNCHANGED <<pc, data, result, sensor_readings, alerts, idx, limits, warned,
                   alerts_created, outbox, response>>
    /\ UNCHANGED <<now, analytics_summary, sweep, returned>>

NextThresholds ==
    \/ \E d \in AlertInputs : Submit(d)
    \/ Receive
    \/ FetchThreshold
    \/ Evaluate
    \/ SaveAlert
    \/ Notify
    \/ Respond
    \/ \E w \in Workers : \E body \in ThresholdBodies : UpdateThresholdsBegin(w, body)
    \/ \E w \in Workers : UpdateThresholdsStep(w)

SpecThresholds == Init /\ [][NextThresholds]_vars

\* ================================================================= claims
\* check_thresholds has built its list for the request in progress
Evaluated == pc \in {"save", "notify", "respond"} \/ (pc = "done" /\ response.code = 200)

AlertsOf(sensor_type) == SelectSeq(alerts_created, LAMBDA a : a.sensor_type = sensor_type)

\* The four rules of a two-sided sensor in the order of the claim:
\* value > criticalMax, value < criticalMin, value > warningMax, value < warningMin
RuleKey(prefix, i) ==
    CASE prefix = "temp" /\ i = 1 -> "temp_max"
      [] prefix = "temp" /\ i = 2 -> "temp_min"
      [] prefix = "temp" /\ i = 3 -> "temp_warning_max"
      [] prefix = "temp" /\ i = 4 -> "temp_warning_min"
      [] prefix = "humidity" /\ i = 1 -> "humidity_max"
      [] prefix = "humidity" /\ i = 2 -> "humidity_min"
      [] prefix = "humidity" /\ i = 3 -> "humidity_warning_max"
      [] prefix = "humidity" /\ i = 4 -> "humidity_warning_min"
RuleSeverity(i) == IF i \in {1, 2} THEN "critical" ELSE "warning"
RuleMatches(prefix, i, value) ==
    IF i \in {1, 3} THEN value > limits[RuleKey(prefix, i)]
                    ELSE value < limits[RuleKey(prefix, i)]

FirstRuleDecides(prefix, sensor_type, value) ==
    IF \E i \in 1..4 : RuleMatches(prefix, i, value)
        THEN \E i \in 1..4 :
                /\ RuleMatches(prefix, i, value)
                /\ \A j \in 1..(i - 1) : ~RuleMatches(prefix, j, value)
                /\ Len(AlertsOf(sensor_type)) = 1
                /\ AlertsOf(sensor_type)[1].alert_type = RuleSeverity(i)
                /\ AlertsOf(sensor_type)[1].value = value
                /\ AlertsOf(sensor_type)[1].threshold = limits[RuleKey(prefix, i)]
                /\ ~AlertsOf(sensor_type)[1].is_resolved
        ELSE AlertsOf(sensor_type) = << >>

\* C1: for temperature and for humidity, under every configuration of the
\* limits in effect, check_thresholds emits the alert of the first rule that
\* matches in the order > criticalMax, < criticalMin, > warningMax,
\* < warningMin, and none if no rule matches; a temperature above criticalMax
\* gives exactly one temperature alert, critical, with threshold criticalMax
\* and the measured value, and no temperature warning.
C1_FirstMatchingRule ==
    Evaluated =>
        /\ FirstRuleDecides("temp", "temperature", result.reading.temperature)
        /\ FirstRuleDecides("humidity", "humidity", result.reading.humidity)
        /\ result.reading.temperature > limits["temp_max"] =>
              /\ Len(AlertsOf("temperature")) = 1
              /\ AlertsOf("temperature")[1].alert_type = "critical"
              /\ AlertsOf("temperature")[1].threshold = limits["temp_max"]
              /\ AlertsOf("temperature")[1].value = result.reading.temperature

\* a temperature above a criticalMax that lies below warningMax and
\* criticalMin: three rules match and the critical-high alert was emitted
C1_Witness ==
    /\ pc = "done"
    /\ response.code = 200
    /\ result.reading.temperature > limits["temp_max"]
    /\ limits["temp_max"] < limits["temp_warning_max"]
    /\ result.reading.temperature < limits["temp_min"]
    /\ Len(AlertsOf("temperature")) = 1

\* the limits in effect are well ordered
WellOrdered ==
    /\ limits["temp_min"] <= limits["temp_warning_min"]
    /\ limits["temp_warning_max"] <= limits["temp_max"]
    /\ limits["humidity_min"] <= limits["humidity_warning_min"]
    /\ limits["humidity_warning_max"] <= limits["humidity_max"]
    /\ limits["methane_warning"] <= limits["methane_critical"]
    /\ limits["other_gases_warning"] <= limits["other_gases_critical"]

\* every sensor of the reading lies within its warning band, bounds included
InBand ==
    /\ limits["temp_warning_min"] <= result.reading.temperature
    /\ result.reading.temperature <= limits["temp_warning_max"]
    /\ limits["humidity_warning_min"] <= result.reading.humidity
    /\ result.reading.humidity <= limits["humidity_warning_max"]
    /\ result.reading.methane <= limits["methane_warning"]
    /\ result.reading.other_gases <= limits["other_gases_warning"]

NoLowGasAlert ==
    \A i \in 1..Len(alerts_created) :
        alerts_created[i].sensor_type \in {"methane", "other_gases"} =>
            alerts_created[i].value > alerts_created[i].threshold

\* C2 as stated: a reading within [warningMin, warningMax] for temperature
\* and humidity and not above the warning limit of methane and other_gases
\* gives an empty list and no stored alert, and the gases give no alert for
\* being low.
C2_Original ==
    /\ (Evaluated /\ InBand) => (alerts_created = << >> /\ pc \notin {"save", "notify"})
    /\ Evaluated => NoLowGasAlert

\* C2 amended: the same, for limits in effect that are well ordered
\* (criticalMin <= warningMin, warningMax <= criticalMax, warning <= critical).
C2_InBandNoAlert ==
    /\ (Evaluated /\ InBand /\ WellOrdered) =>
            (alerts_created = << >> /\ pc \notin {"save", "notify"})
    /\ Evaluated => NoLowGasAlert

\* a reading on the upper bounds of all four bands under the default limits
\* was answered without an alert
C2_Witness ==
    /\ pc = "done"
    /\ response.code = 200
    /\ InBand
    /\ WellOrdered
    /\ result.reading.temperature = limits["temp_warning_max"]
    /\ result.reading.methane = limits["methane_warning"]
    /\ response.alerts_generated = 0

SensorRank(sensor_type) ==
    CASE sensor_type = "temperature" -> 1
      [] sensor_type = "humidity" -> 2
      [] sensor_type = "methane" -> 3
      [] sensor_type = "other_gases" -> 4

\* C3: the list holds at most one alert per sensor, so zero to four, in the
\* order temperature, humidity, methane, other_gases; with the default
\* thresholds a reading above all four critical maxima gives four critical
\* alerts in that order.
C3_OnePerSensorInOrder ==
    Evaluated =>
        /\ Len(alerts_created) <= 4
        /\ \A i \in 1..Len(alerts_created) : \A j \in 1..Len(alerts_created) :
              i < j => SensorRank(alerts_created[i].sensor_type)
                           < SensorRank(alerts_created[j].sensor_type)
        /\ ( /\ limits = DefaultLimits
             /\ result.reading.temperature > TEMP_MAX
             /\ result.reading.humidity > HUMIDITY_MAX
             /\ result.reading.methane > METHANE_CRITICAL
             /\ result.reading.other_gases > OTHER_GASES_CRITICAL )
           => /\ Len(alerts_created) = 4
              /\ \A i \in 1..4 : /\ SensorRank(alerts_created[i].sensor_type) = i
                                 /\ alerts_created[i].alert_type = "critical"

\* the reading 40 C, 90 %, 350 ppm, 450 was answered with four alerts
C3_Witness ==
    /\ pc = "done"
    /\ response.code = 200
    /\ limits = DefaultLimits
    /\ result.reading.temperature = 40 * Unit
    /\ response.alerts_generated = 4


\* the reading of the request in progress is in the reading store under the
\* id save_sensor_reading returned
ReadingSaved ==
    /\ result.success
    /\ result.reading_id \in 1..Len(sensor_readings)
    /\ sensor_readings[result.reading_id] = result.reading

C4_AfterSave ==
    pc \in {"fetch", "evaluate", "save", "notify", "respond"} =>
        /\ data # EmptyBody
        /\ validate_sensor_reading_dict(data).ok
        /\ ReadingSaved

\* a step of process_sensor_data is one that leaves "received"; its save
\* raised exactly when the step counted a failure
C4_Step ==
    /\ (pc = "received" /\ pc' # "received"
            /\ (~validate_sensor_reading_dict(data).ok \/ nEvents' # nEvents)) =>
          /\ pc' = "done"
          /\ response'.code = 400
          /\ sensor_readings' = sensor_readings
          /\ alerts' = alerts
          /\ outbox' = outbox
    /\ (alerts' # alerts \/ outbox' # outbox \/ (limits' # limits /\ pc = "fetch")) =>
          ReadingSaved
    /\ pc = "done" =>
          (sensor_readings' = sensor_readings /\ alerts' = alerts /\ outbox' = outbox)

\* C4: within one ingestion the threshold evaluation, the saving of alerts
\* and the notifications happen only after the reading passed validation
\* and was saved under the returned id; when validation or the save fails
\* the response reports failure, both stores are unchanged, no notification
\* is sent and the request ends there, without a retry.
C4_OnlyAfterSave == [](C4_AfterSave) /\ [][C4_Step]_vars

\* a valid reading whose save raised was answered with a failure
C4_Witness ==
    /\ pc = "done"
    /\ validate_sensor_reading_dict(data).ok
    /\ result.error = "database_error"
    /\ response.code = 400

\* the domains of the data model: temperature 0..60, humidity 0..100,
\* methane and other_gases 0..1023
InDomain(field, x) ==
    CASE field = "temperature" -> 0 <= x /\ x <= 60 * Unit
      [] field = "humidity" -> 0 <= x /\ x <= 100 * Unit
      [] field = "methane" -> 0 <= x /\ x <= 1023 * Unit
      [] field = "other_gases" -> 0 <= x /\ x <= 1023 * Unit
OutOfDomain(d, field) == d[field].kind = "num" /\ ~InDomain(field, d[field].v)

\* C5 as stated: an input with a value outside its domain, fractional values
\* included, is rejected and nothing is stored for it, and every stored
\* reading has its four fields inside their domains.
C5_Original ==
    /\ (pc \notin {"idle", "received"} /\ \E f \in FieldSet : OutOfDomain(data, f)) =>
            ~result.success
    /\ \A i \in 1..Len(sensor_readings) : \A f \in FieldSet :
            InDomain(f, sensor_readings[i][f])

\* positions in the order temperature, humidity, methane, other_gases
Pos(P(_)) == {i \in 1..4 : P(Fields[i])}
First(S) == CHOOSE i \in S : \A j \in S : i <= j

IsMissing(f) == data[f].kind = "missing"
IsNonNumeric(f) == data[f].kind = "str"
IsOutOfDomain(f) == OutOfDomain(data, f)
\* the value is one the field's own range check rejects: temperature and
\* humidity as given, methane and other_gases after int() dropped the fraction
IsRangeRejected(f) ==
    /\ data[f].kind = "num"
    /\ CASE f = "temperature" -> data[f].v < 0 \/ data[f].v > 60 * Unit
         [] f = "humidity" -> data[f].v < 0 \/ data[f].v > 100 * Unit
         [] f = "methane" -> data[f].v <= 0 - Unit \/ data[f].v >= 1024 * Unit
         [] f = "other_gases" -> data[f].v <= 0 - Unit \/ data[f].v >= 1024 * Unit

\* validate_sensor_reading_dict ran on the body of the request in progress
Validated == pc \notin {"idle", "received"} /\ data # EmptyBody

C7_Original ==
    (Validated /\ \A f \in FieldSet : data[f].kind = "num") =>
        IF Pos(IsOutOfDomain) # {}
            THEN /\ ~result.verdict.ok
                 /\ result.verdict.field = Fields[First(Pos(IsOutOfDomain))]
                 /\ result.verdict.error \in {"negative", "too_high"}
            ELSE result.verdict.ok

\* C8: a reading built without an explicit exhaust_fan has exhaust_fan =
\* (methane >= 200); for every accepted reading the exhaust_fan stored with
\* it and the one returned to the device equal (methane >= 200).
C8_ExhaustFan ==
    /\ \A i \in 1..Len(sensor_readings) :
          LET r == sensor_readings[i]
          IN  /\ r.exhaust_fan = (r.methane >= 200 * Unit)
              /\ SensorReading(r.temperature, r.humidity, r.methane, r.other_gases,
                               "none").exhaust_fan = (r.methane >= 200 * Unit)
    /\ response.code = 200 =>
          /\ response.reading_id \in 1..Len(sensor_readings)
          /\ response.exhaust_fan =
                (sensor_readings[response.reading_id].methane >= 200 * Unit)

\* a reading with methane exactly 200 was answered with the fan on
C8_Witness ==
    /\ pc = "done"
    /\ response.code = 200
    /\ sensor_readings[response.reading_id].methane = 200 * Unit
    /\ response.exhaust_fan

\* a step of check_thresholds that fetched the limit of key Keys[idx]
FetchStep == pc = "fetch" /\ (pc' = "evaluate" \/ idx' = idx + 1)

\* C9 as stated: once update_setting(key, v) has completed with an accepted
\* numeric v, a check_thresholds that starts afterwards, with no later update
\* of the key and its read of the key not raising, uses v for that limit,
\* not the default or an earlier value.
C9_Original ==
    [][ (FetchStep /\ Keys[idx] \notin warned' /\ Keys[idx] \notin updated
            /\ settings[Keys[idx]].kind = "num") =>
            limits'[Keys[idx]] = settings[Keys[idx]].v ]_vars

\* what the default limits say about each sensor of the reading
DefaultViolation(sensor_type) ==
    CASE sensor_type = "temperature" ->
            \/ result.reading.temperature > TEMP_WARNING_MAX
            \/ result.reading.temperature < TEMP_WARNING_MIN
      [] sensor_type = "humidity" ->
            \/ result.reading.humidity > HUMIDITY_WARNING_MAX
            \/ result.reading.humidity < HUMIDITY_WARNING_MIN
      [] sensor_type = "methane" -> result.reading.methane > METHANE_WARNING
      [] sensor_type = "other_gases" -> result.reading.other_gases > OTHER_GASES_WARNING

C10_Step ==
    FetchStep =>
        /\ (Keys[idx] \in warned' \/ settings[Keys[idx]].kind = "missing") =>
              limits'[Keys[idx]] = Default(Keys[idx])
        /\ response' = response

C10_AllEvaluated ==
    (Evaluated /\ \A k \in KeySet : k \in warned \/ limits[k] = Default(k)) =>
        \A s \in FieldSet : (AlertsOf(s) # << >>) <=> DefaultViolation(s)

\* C10: for each of the twelve keys, when reading the setting raises or the
\* setting does not exist, check_thresholds uses the built-in default for
\* the key, raises nothing to its caller and still evaluates all four
\* sensors of the reading.
C10_DefaultOnFailure == [][C10_Step]_vars /\ [](C10_AllEvaluated)

\* a request one of whose setting reads raised, on a setting that exists,
\* was answered with the four alerts the default limits give
C10_Witness ==
    /\ pc = "done"
    /\ response.code = 200
    /\ \E k \in warned : settings[k].kind = "num"
    /\ response.alerts_generated = 4


\* a step of the running check_thresholds call
CheckStep == pc \in {"fetch", "evaluate", "save"} /\ (pc' # pc \/ idx' # idx)

\* C11 as stated: check_thresholds changes no stored state (alert store,
\* reading store, settings store) and sends no notification.
C11_Original ==
    [][ CheckStep =>
            /\ alerts' = alerts
            /\ sensor_readings' = sensor_readings
            /\ settings' = settings
            /\ outbox' = outbox ]_vars

\* a step of the notification loop of receive_sensor_data
NotifyStep == pc = "notify" /\ (pc' # pc \/ idx' # idx)

\* the last n calls of send_alert_notification were made for the n alerts of
\* the list, in order
AllAttempted ==
    LET n == Len(alerts_created)
    IN  /\ Len(outbox) >= n
        /\ \A i \in 1..n :
              outbox[Len(outbox) - n + i].sensor_type = alerts_created[i].sensor_type

C12_Step ==
    NotifyStep =>
        /\ Len(outbox') = Len(outbox) + 1
        /\ outbox'[Len(outbox')].sensor_type = alerts_created[idx].sensor_type
        /\ IF idx < Len(alerts_created) THEN pc' = "notify" /\ idx' = idx + 1
                                        ELSE pc' = "respond"
        /\ sensor_readings' = sensor_readings
        /\ alerts' = alerts
        /\ result' = result
        /\ alerts_created' = alerts_created

C12_Responded ==
    (pc = "done" /\ result.success) =>
        /\ response.code = 200
        /\ response.exhaust_fan = (result.reading.methane >= 200 * Unit)
        /\ response.alerts_generated = Len(EvaluateReading(result.reading, limits))
        /\ ReadingSaved
        /\ AllAttempted

\* C12: for a valid reading that was saved, whatever subset of its alert
\* notifications fail (by raising or by reporting nothing sent), the request
\* is still answered with success and the same exhaust_fan and
\* alerts_generated, the reading and the alerts stay stored, and the
\* notification of every remaining alert is still attempted.
C12_NotificationsBestEffort == [](C12_Responded) /\ [][C12_Step]_vars

\* four alerts, the notification of the first raised and that of another
\* reported nothing sent, and the request was answered with success
C12_Witness ==
    /\ pc = "done"
    /\ response.code = 200
    /\ response.alerts_generated = 4
    /\ Len(outbox) = 4
    /\ outbox[1].outcome = "raised"
    /\ \E i \in 2..3 : outbox[i].outcome = "unsent"
    /\ outbox[4].outcome = "sent"
    /\ Len(alerts) = 4


\* an alert as it is right after its creation
IsOpen(a) == ~a.is_resolved /\ a.resolved_at = NoTime

C13_CreatedOpen ==
    /\ \A i \in 1..Len(alerts_created) : IsOpen(alerts_created[i])
    /\ \A i \in 1..Len(alerts) : alerts[i].is_resolved \/ IsOpen(alerts[i])

C13_Step ==
    /\ Len(alerts') >= Len(alerts)
    /\ \A i \in 1..Len(alerts) : alerts[i].is_resolved => alerts'[i].is_resolved
    /\ \A i \in (Len(alerts) + 1)..Len(alerts') : IsOpen(alerts'[i])

\* C13: every alert is created open (is_resolved false, resolved_at empty),
\* and over every sequence of check_thresholds, create_alert, resolve_alert
\* and auto_resolve_old_alerts calls a resolved alert stays resolved.
C13_ResolvedStaysResolved == [](C13_CreatedOpen) /\ [][C13_Step]_vars

\* an alert the sweep resolved is still resolved after a later resolve_alert
\* call on it returned
C13_Witness ==
    /\ sweep.pc = "returned"
    /\ returned.op = "resolve_alert"
    /\ returned.value
    /\ \E i \in sweep.resolved : alerts[i].is_resolved /\ alerts[i].resolved_at = now

\* C14 as stated: resolving an alert that is already resolved, by
\* resolve_alert or by the sweep, leaves the stored alert unchanged, its
\* resolved_at keeping the time of the first resolution.
C14_Original ==
    [][ \A i \in 1..Len(alerts) : alerts[i].is_resolved => alerts'[i] = alerts[i] ]_vars

\* a pass of the loop of the running sweep
SweepLoopStep == sweep.pc = "loop" /\ sweep'.pc = "loop" /\ sweep' # sweep

C16_Step ==
    /\ SweepLoopStep =>
          LET alert_id == Head(sweep.queue)
          IN  /\ sweep'.queue = Tail(sweep.queue)
              /\ IF alerts[alert_id].created_at < sweep.cutoff /\ nEvents' = nEvents
                   THEN /\ sweep'.resolved_count = sweep.resolved_count + 1
                        /\ alerts'[alert_id].is_resolved
                        /\ alerts'[alert_id].resolved_at = now
                   ELSE /\ sweep'.resolved_count = sweep.resolved_count
                        /\ alerts' = alerts
    /\ (sweep.pc = "loop" /\ sweep'.pc = "returned") =>
          /\ sweep.queue = << >>
          /\ returned'.op = "auto_resolve_old_alerts"
          /\ returned'.value = Cardinality(sweep.resolved)

C16_Counted ==
    /\ sweep.resolved_count = Cardinality(sweep.resolved)
    /\ sweep.resolved \cap sweep.failed = {}
    /\ \A i \in sweep.resolved : alerts[i].is_resolved

\* C16: when resolving some of the alerts the sweep selected fails, the sweep
\* goes on to every remaining selected alert, and the number it returns is
\* the number of alerts whose resolution succeeded in this sweep.
C16_SweepGoesOn == [](C16_Counted) /\ [][C16_Step]_vars

\* a sweep in which the resolution of one alert failed and that of a later
\* one succeeded has returned 1
C16_Witness ==
    /\ sweep.pc = "returned"
    /\ returned.op = "auto_resolve_old_alerts"
    /\ returned.value = 1
    /\ \E i \in sweep.failed : \E j \in sweep.resolved :
          i < j /\ ~alerts[i].is_resolved /\ alerts[j].is_resolved


\* C15 as stated: when auto_resolve_old_alerts returns, it could read the
\* alerts and no individual resolution failed, no alert created before the
\* cutoff is still open, however many open alerts there are, and no alert
\* created at or after the cutoff was resolved by the sweep.
C15_Original ==
    (sweep.pc = "returned" /\ sweep.fetched /\ sweep.failed = {}) =>
        /\ \A i \in 1..Len(alerts) :
              alerts[i].created_at < sweep.cutoff => alerts[i].is_resolved
        /\ \A i \in sweep.resolved : alerts[i].created_at < sweep.cutoff


\* a step that is a call of calculate_daily_summary in which no Firestore
\* call raised and a summary was returned
SummaryStep ==
    /\ returned'.op = "calculate_daily_summary"
    /\ nEvents' = nEvents + 1
    /\ returned'.value # NoSummary

\* the stored alerts created within a day, and the critical ones among them
AlertsOfDay(d) ==
    {i \in 1..Len(alerts) : InWindow(alerts[i].created_at, DayStart(d), DayEnd(d))}
CriticalAlertsOfDay(d) == {i \in AlertsOfDay(d) : alerts[i].alert_type = "critical"}

\* C17 as stated: in every summary calculate_daily_summary produces,
\* alert_count is the number of stored alerts created within the target day
\* and critical_alert_count the number of the critical ones among them,
\* whatever the number of stored alerts and of alerts created after that day.
C17_Original ==
    [][SummaryStep =>
        /\ returned'.value.alert_count = Cardinality(AlertsOfDay(returned'.date))
        /\ returned'.value.critical_alert_count =
              Cardinality(CriticalAlertsOfDay(returned'.date))]_vars

\* the readings stored for a day
ReadingsOfDay(d) == get_readings_in_range(sensor_readings, DayStart(d), DayEnd(d))

\* C18: calculate_daily_summary for a date that has no stored reading
\* returns no summary and writes nothing: the summary store is left as it
\* was, with no record created for the date.
C18_NoReadingsNoSummary ==
    [][(returned'.op = "calculate_daily_summary"
            /\ nEvents' > nEvents
            /\ ReadingsOfDay(returned'.date) = << >>) =>
        /\ returned'.value = NoSummary
        /\ analytics_summary' = analytics_summary]_vars

\* calculate_daily_summary was called for a day without readings while a
\* summary of another day is stored: it returned none and the day has no
\* record
C18_Witness ==
    /\ returned.op = "calculate_daily_summary"
    /\ ReadingsOfDay(returned.date) = << >>
    /\ returned.value = NoSummary
    /\ analytics_summary[returned.date] = NoSummary
    /\ \E d \in Dates : analytics_summary[d] # NoSummary

\* C19 as stated: the readings of a date being unchanged, a second
\* computation of its summary returns the field values of the first, and
\* the store then holds one record for the date, equal to the last result.
C19_Original ==
    [][(returned'.op = "calculate_daily_summary"
            /\ nEvents' > nEvents
            /\ returned'.value # NoSummary
            /\ sensor_readings' = sensor_readings) =>
        /\ analytics_summary[returned'.date] # NoSummary =>
              returned'.value = analytics_summary[returned'.date]
        /\ analytics_summary'[returned'.date] = returned'.value]_vars

\* C20 as stated: when calculate_daily_summary has produced and stored a
\* summary for the target date, calculate_and_save_daily_summary returns
\* success = true with that summary.
C20_Original ==
    [][(returned'.op = "calculate_and_save_daily_summary"
            /\ nEvents' = nEvents + 1
            /\ ReadingsOfDay(returned'.date) # << >>) =>
        /\ returned'.value.success
        /\ returned'.value.summary = analytics_summary'[returned'.date]]_vars


\* the decision table of the overall status, first matching row, on the
\* alert counts and the ranges of a summary
StatusTable(critical_alert_count, alert_count, temperature_range, humidity_range) ==
    CASE critical_alert_count > 0 -> "Critical"
      [] critical_alert_count <= 0 /\ alert_count > 20 -> "Poor"
      [] critical_alert_count <= 0 /\ alert_count <= 20
            /\ (alert_count > 5 \/ temperature_range > 500 \/ humidity_range > 1000)
            -> "Fair"
      [] critical_alert_count <= 0 /\ alert_count <= 5 /\ temperature_range <= 500
            /\ humidity_range <= 1000 /\ alert_count > 0 -> "Good"
      [] OTHER -> "Excellent"

\* C21: get_overall_status returns the first matching row of the table
\* (critical alerts: Critical; more than 20 alerts: Poor; more than 5 alerts
\* or a temperature range above 5.0 or a humidity range above 10.0: Fair;
\* any alert: Good; else Excellent); a summary with a critical alert is
\* Critical whatever its other fields, and a day with one reading and no
\* alerts is Excellent.
C21_FirstMatchingRow ==
    returned.op = "get_overall_status" =>
        LET s == analytics_summary[returned.date]
        IN  /\ returned.value =
                  StatusTable(s.critical_alert_count, s.alert_count,
                              s.max_temperature - s.min_temperature,
                              s.max_humidity - s.min_humidity)
            /\ s.critical_alert_count >= 1 => returned.value = "Critical"
            /\ (s.reading_count = 1 /\ s.alert_count = 0
                    /\ s.critical_alert_count = 0) => returned.value = "Excellent"

\* a summary with a critical alert that is otherwise Poor (more than 20
\* alerts, unstable temperature) was given its status
C21_Witness ==
    /\ returned.op = "get_overall_status"
    /\ analytics_summary[returned.date].critical_alert_count > 0
    /\ analytics_summary[returned.date].alert_count > 20
    /\ analytics_summary[returned.date].max_temperature
          - analytics_summary[returned.date].min_temperature > 500
    /\ returned.value = "Critical"


\* a step in which worker w returns from get_alert_summary
AlertSummaryStep(w) ==
    /\ tasks[w].op = "get_alert_summary"
    /\ tasks'[w] = NoTask
    /\ returned'.op = "get_alert_summary"

\* the smallest created_at among the alerts of a list
EarliestCreation(active_alerts) ==
    CHOOSE t \in {active_alerts[i].alert.created_at : i \in DOMAIN active_alerts} :
        \A i \in DOMAIN active_alerts : t <= active_alerts[i].alert.created_at

\* C22: each get_alert_summary result describes the one list of open alerts
\* it fetched: active_count is its length, the counts by severity and the
\* counts by sensor are counts over that list and each sum to active_count,
\* also when alerts were created or resolved meanwhile, and
\* oldest_alert_age_minutes is the age of its alert of smallest created_at.
C22_OneSnapshot ==
    [][\A w \in Workers : AlertSummaryStep(w) =>
        LET fetched == tasks[w].active_alerts
            summary == returned'.value
        IN  /\ summary.active_count = Len(fetched)
            /\ \A s \in Severities :
                  summary.by_severity[s] =
                      Cardinality({i \in DOMAIN fetched : fetched[i].alert.alert_type = s})
            /\ \A s \in SensorTypes :
                  summary.by_sensor[s] =
                      Cardinality({i \in DOMAIN fetched : fetched[i].alert.sensor_type = s})
            /\ summary.by_severity["critical"] + summary.by_severity["warning"]
                  + summary.by_severity["info"] = summary.active_count
            /\ summary.by_sensor["temperature"] + summary.by_sensor["humidity"]
                  + summary.by_sensor["methane"] + summary.by_sensor["other_gases"]
                  = summary.active_count
            /\ fetched # << >> =>
                  summary.oldest_alert_age_minutes = now' - EarliestCreation(fetched)]_vars

\* a summary of several alerts was returned after the open alerts of the
\* store had changed: its counts still sum to its active_count, which is no
\* longer the number of open alerts stored
C22_Witness ==
    /\ returned.op = "get_alert_summary"
    /\ returned.value.active_count > 1
    /\ returned.value.active_count
          # Cardinality({i \in 1..Len(alerts) : ~alerts[i].is_resolved})
    /\ returned.value.by_sensor["temperature"] + returned.value.by_sensor["humidity"]
          + returned.value.by_sensor["methane"] + returned.value.by_sensor["other_gases"]
          = returned.value.active_count
    /\ returned.value.oldest_alert_age_minutes > 0


\* worker w writes the summary it has computed
SaveStep(w) ==
    /\ tasks[w].op = "calculate_daily_summary"
    /\ tasks[w].pc = "save"
    /\ tasks'[w] = NoTask

\* every change of the summary store is the write, by one computation, of
\* its whole summary under its own date, the records of the other dates
\* staying as they were
C23_Step ==
    analytics_summary' # analytics_summary =>
        \E w \in Workers :
            /\ SaveStep(w)
            /\ analytics_summary' =
                  [analytics_summary EXCEPT ![tasks[w].date] = TaskSummary(tasks[w])]

\* a stored summary carries its own date and all its reading fields come
\* from one fetch of the readings of that date: the readings of the date
\* only grow, so from one prefix of them
C23_Whole ==
    \A d \in Dates :
        analytics_summary[d] # NoSummary =>
            \E n \in 1..Len(ReadingsOfDay(d)) :
                analytics_summary[d] =
                    AnalyticsSummary(d, SubSeq(ReadingsOfDay(d), 1, n),
                                     analytics_summary[d].alert_count,
                                     analytics_summary[d].critical_alert_count)

\* C23: under every interleaving of summary computations and reading
\* ingestions, a computation for one date never creates, changes or removes
\* the stored summary of another date, and the summary stored for a date is
\* the complete result of one computation for it, never a mix of two.
C23_DatesIndependent == [](C23_Whole) /\ [][C23_Step]_vars

\* the summaries of both days are stored, and that of day 1 was computed
\* from the readings fetched before a reading of day 1 was ingested
C23_Witness ==
    /\ analytics_summary[0] # NoSummary
    /\ analytics_summary[1] # NoSummary
    /\ analytics_summary[1].reading_count < Len(ReadingsOfDay(1))
    /\ \A w \in Workers : tasks[w] = NoTask

\* get_daily_summary starts a computation only for a date that has no
\* stored summary at that moment
C24_ComputesWhenNone ==
    \A w \in Workers :
        (tasks[w] = NoTask /\ tasks'[w] # NoTask
            /\ tasks'[w].caller = "get_daily_summary") =>
                analytics_summary[tasks'[w].date] = NoSummary

\* a get_daily_summary call in which nothing failed, for a date that has a
\* stored summary, returns that summary at once and writes nothing
C24_ReturnsStored ==
    (returned'.op = "get_daily_summary" /\ nEvents' = nEvents + 1
        /\ tasks' = tasks /\ ingest' = ingest
        /\ analytics_summary[returned'.date] # NoSummary) =>
            /\ returned'.value = analytics_summary[returned'.date]
            /\ analytics_summary' = analytics_summary

\* the write of a computation started by get_daily_summary finds no summary
\* stored for its date
C24_NeverOverwrites ==
    \A w \in Workers :
        (SaveStep(w) /\ tasks[w].caller = "get_daily_summary"
            /\ analytics_summary' # analytics_summary) =>
                analytics_summary[tasks[w].date] = NoSummary

\* C24 as stated: get_daily_summary returns the stored summary without
\* recomputing or writing when one exists, computes, stores and returns one
\* only when none exists, and never overwrites a summary already stored.
C24_Original ==
    [][C24_ComputesWhenNone /\ C24_ReturnsStored /\ C24_NeverOverwrites]_vars

\* C24 amended: get_daily_summary returns the stored summary without
\* recomputing or writing when one exists at the moment it reads the store,
\* and starts computing only when none exists at that moment; a summary
\* stored for the date by another computation after that read is overwritten
\* by its write.
C24_StoredAtTheRead == [][C24_ComputesWhenNone /\ C24_ReturnsStored]_vars

\* get_daily_summary returned, at once, the summary stored for a date
C24_Witness ==
    /\ returned.op = "get_daily_summary"
    /\ returned.value # NoSummary
    /\ returned.value = analytics_summary[returned.date]
    /\ \A w \in Workers : tasks[w] = NoTask
    /\ nEvents = 2

\* C28 as stated: every summary calculate_daily_summary produces has
\* 0 <= critical_alert_count <= alert_count, also when alerts of the target
\* day are created while it is computed.
C28_Original ==
    \A d \in Dates :
        analytics_summary[d] # NoSummary =>
            /\ 0 <= analytics_summary[d].critical_alert_count
            /\ analytics_summary[d].critical_alert_count
                  <= analytics_summary[d].alert_count


\* the readings get_correlations looks at: those of the last 7 days
WindowReadings ==
    get_readings_in_range(sensor_readings, now - 7 * TicksPerDay, now)

\* C25 as stated: get_correlations returns the insufficient-data result,
\* with no matrix, exactly when the window holds fewer than 10 readings;
\* with 10 or more it returns a matrix of exactly the 6 unordered sensor
\* pairs, each entry a defined number between -1 and 1, never NaN, also
\* when a sensor has zero variance.
C25_Original ==
    (returned.op = "get_correlations" /\ "data_points" \in DOMAIN returned.value) =>
        /\ Len(WindowReadings) < 10 <=>
              ("error" \in DOMAIN returned.value
                  /\ "matrix" \notin DOMAIN returned.value)
        /\ Len(WindowReadings) >= 10 =>
              /\ "matrix" \in DOMAIN returned.value
              /\ Cardinality(DOMAIN returned.value.matrix) = 6
              /\ \A p \in DOMAIN returned.value.matrix :
                    /\ returned.value.matrix[p].kind = "num"
                    /\ returned.value.matrix[p].cov2 <= returned.value.matrix[p].vv


\* the classification of a slope num / den
TrendOf(num, den) ==
    IF 10 * Abs(num) < den THEN "stable"
    ELSE IF num > 0 THEN "increasing" ELSE "decreasing"

\* the trends returned are those of the least-squares slopes of the daily
\* means, insufficient_data standing for fewer than 2 distinct days
C26_Classified ==
    (returned.op = "get_trends" /\ "sensors" \in DOMAIN returned.value) =>
        \A s \in SensorTypes :
            LET days == Cardinality({DateOf(sensor_readings[i].timestamp) :
                                        i \in DOMAIN sensor_readings})
                slope == Slope(sensor_readings, s)
            IN  IF days < 2
                  THEN returned.value.sensors[s].trend = "insufficient_data"
                  ELSE returned.value.sensors[s].trend = TrendOf(slope.num, slope.den)

\* daily means 20, 22, 24, 26 give increasing with slope 2
C26_Scenario ==
    (returned.op = "get_trends"
        /\ sensor_readings = <<TrendReading(20 * Unit, 0 - 3), TrendReading(22 * Unit, 0 - 2),
                               TrendReading(24 * Unit, 0 - 1), TrendReading(26 * Unit, 0)>>
        /\ "sensors" \in DOMAIN returned.value) =>
            /\ returned.value.sensors["temperature"].trend = "increasing"
            /\ returned.value.sensors["temperature"].trend_strength = 2 * 10000
            /\ returned.value.sensors["humidity"].trend = "decreasing"

\* C26 as stated: the trend of a sensor is that of the least-squares slope
\* of its daily means against their index in date order (stable below 0.1,
\* else increasing or decreasing by sign, insufficient_data below 2 days),
\* trend_strength is |slope|, and means 20, 22, 24, 26 give increasing with
\* slope 2.
C26_Original ==
    /\ C26_Classified
    /\ C26_Scenario
    /\ (returned.op = "get_trends" /\ "sensors" \in DOMAIN returned.value) =>
          \A s \in SensorTypes :
              returned.value.sensors[s].days >= 2 =>
                  returned.value.sensors[s].trend_strength
                        * Slope(sensor_readings, s).den
                      = Abs(Slope(sensor_readings, s).num) * 10000

\* C26 amended: as stated, but trend_strength is |slope| rounded to 4
\* decimals, while the trend is decided on the slope before rounding.
C26_StrengthRounded ==
    /\ C26_Classified
    /\ C26_Scenario
    /\ (returned.op = "get_trends" /\ "sensors" \in DOMAIN returned.value) =>
          \A s \in SensorTypes :
              returned.value.sensors[s].days >= 2 =>
                  returned.value.sensors[s].trend_strength
                      = Round4(Abs(Slope(sensor_readings, s).num),
                               Slope(sensor_readings, s).den)

\* trends were computed over three days whose slope is not a multiple of
\* 0.0001: the temperature is stable with a strength that is the slope
\* rounded
C26_Witness ==
    /\ returned.op = "get_trends"
    /\ "sensors" \in DOMAIN returned.value
    /\ returned.value.sensors["temperature"].days = 3
    /\ returned.value.sensors["temperature"].trend = "stable"
    /\ returned.value.sensors["temperature"].trend_strength > 0
    /\ returned.value.sensors["temperature"].trend_strength
          * Slope(sensor_readings, "temperature").den
          # Abs(Slope(sensor_readings, "temperature").num) * 10000


\* C27: SensorReading.from_dict(r.to_dict()) has the temperature, humidity,
\* methane, other_gases, exhaust_fan (forced or not) and timestamp of r, and
\* AnalyticsSummary.from_dict(s.to_dict()) has the field values of s.
C27_RoundTrip ==
    /\ returned.op = "SensorReading.from_dict" =>
          /\ returned.value.temperature = sensor_readings[returned.date].temperature
          /\ returned.value.humidity = sensor_readings[returned.date].humidity
          /\ returned.value.methane = sensor_readings[returned.date].methane
          /\ returned.value.other_gases = sensor_readings[returned.date].other_gases
          /\ returned.value.exhaust_fan = sensor_readings[returned.date].exhaust_fan
          /\ returned.value.timestamp = sensor_readings[returned.date].timestamp
    /\ returned.op = "AnalyticsSummary.from_dict" =>
          /\ DOMAIN returned.value = DOMAIN analytics_summary[returned.date]
          /\ \A f \in DOMAIN returned.value :
                returned.value[f] = analytics_summary[returned.date][f]

\* a reading whose exhaust_fan was forced on below the fan threshold, made
\* before the present time, came back from from_dict(to_dict())
C27_Witness ==
    /\ returned.op = "SensorReading.from_dict"
    /\ sensor_readings[returned.date].exhaust_fan
    /\ ~calculate_exhaust_fan_status(sensor_readings[returned.date].methane)
    /\ sensor_readings[returned.date].timestamp < now
    /\ returned.value.exhaust_fan


\* the limit check_thresholds obtains for key from a stored document
Resolved(key, setting) == _get_threshold_value(setting, Default(key), FALSE)

\* the keys an update request changes: valid values that resolve to another
\* limit than the configuration in effect when the request arrived
ChangedBy(task) ==
    { task.body[j][1] : j \in { n \in 1..Len(task.body) :
          /\ validate_setting_value(task.body[n][1], task.body[n][2])
          /\ Resolved(task.body[n][1], task.body[n][2])
                 # Resolved(task.body[n][1], task.before[task.body[n][1]]) } }

NewValue(task, key) ==
    CHOOSE v \in { task.body[j][2] : j \in { n \in 1..Len(task.body) : task.body[n][1] = key } } : TRUE

\* C29: the twelve limits one evaluation uses never combine the new value of
\* one limit with the old value of another limit changed by the same
\* update_thresholds request.
C29_Original ==
    pc = "evaluate" =>
        \A w \in Workers :
            tasks[w].op = "update_thresholds" =>
                ~ \E k1, k2 \in ChangedBy(tasks[w]) :
                      /\ k1 # k2
                      /\ limits[k1] = Resolved(k1, NewValue(tasks[w], k1))
                      /\ limits[k2] = Resolved(k2, tasks[w].before[k2])


\* C30: in every reachable state of the alert store, each alert has
\* resolved_at set exactly when is_resolved is true, and a resolved_at that is
\* set is not earlier than the alert's created_at.
C30_ResolvedAtIffResolved ==
    \A i \in 1..Len(alerts) :
        /\ (alerts[i].resolved_at # NoTime) <=> alerts[i].is_resolved
        /\ alerts[i].resolved_at # NoTime => alerts[i].resolved_at >= alerts[i].created_at

\* an alert resolved at a later tick than the one it was created at, beside
\* one that is still open
C30_Witness ==
    \E i, j \in 1..Len(alerts) :
        /\ alerts[i].is_resolved
        /\ alerts[i].resolved_at > alerts[i].created_at
        /\ ~alerts[j].is_resolved
        /\ alerts[j].resolved_at = NoTime

=============================================================================
